---- MODULE Spec2Model ----
(***************************************************************************)
(* A model of the single-agent system: the conversation orchestrator       *)
(* (single_agent/agent.py) and the tool dispatcher with its four tools     *)
(* (single_agent/tools.py).                                                *)
(*                                                                         *)
(* Python strings are sequences of symbols; a symbol is one character or   *)
(* one indivisible lexeme (a word, a JSON literal, a fixed message text).  *)
(* Python values are records [t |-> <type name>, v |-> <payload>].         *)
(***************************************************************************)
EXTENDS Integers, Sequences, FiniteSets, TLC

(***************************************************************************)
(* Bounds of the model.                                                    *)
(***************************************************************************)
\* the largest max_tool_rounds an Agent is constructed with
MaxRounds == 2
\* a turn starts while the history holds at most this many messages
MaxHistory == 4
\* the largest number of tool-call requests in one assistant message
MaxCalls == 2
\* the largest number of chunks of one streamed reply
MaxChunks == 2

(***************************************************************************)
(* Python values.                                                          *)
(***************************************************************************)
PyStr(s) == [t |-> "str", v |-> s]
PyNone == [t |-> "NoneType", v |-> <<>>]
PyList(l) == [t |-> "list", v |-> l]
PyInt(n) == [t |-> "int", v |-> n]
PyBool(b) == [t |-> "bool", v |-> b]
PyDict(f) == [t |-> "dict", v |-> f]

\* Python truth value of x ("if x", "not x", "x or y")
Truthy(x) ==
    CASE x.t = "NoneType" -> FALSE
      [] x.t = "str" -> Len(x.v) > 0
      [] x.t = "list" -> Len(x.v) > 0
      [] x.t = "dict" -> DOMAIN x.v # {}
      [] x.t = "int" -> x.v # 0
      [] x.t = "bool" -> x.v
      [] OTHER -> TRUE

\* the outcome of a call: a returned value or a raised exception
Return(x) == [exc |-> FALSE, val |-> x]
Raise(kind, msg) == [exc |-> TRUE, val |-> PyStr(msg), kind |-> kind]

RECURSIVE Reverse(_)
Reverse(s) == IF s = <<>> THEN <<>> ELSE Reverse(Tail(s)) \o <<Head(s)>>

RECURSIVE Concat(_)
\* the concatenation of a sequence of strings
Concat(ss) == IF ss = <<>> THEN <<>> ELSE Head(ss) \o Concat(Tail(ss))

Digit(d) == <<"0", "1", "2", "3", "4", "5", "6", "7", "8", "9">>[d + 1]

RECURSIVE NatStr(_)
NatStr(n) == IF n < 10 THEN <<Digit(n)>> ELSE NatStr(n \div 10) \o <<Digit(n % 10)>>

\* str(n) of a Python int
IntStr(n) == IF n < 0 THEN <<"-">> \o NatStr(-n) ELSE NatStr(n)

\* n in decimal, zero-padded to w digits (strftime fields)
RECURSIVE Pad(_, _)
Pad(n, w) == IF w = 0 THEN <<>> ELSE Pad(n \div 10, w - 1) \o <<Digit(n % 10)>>

(***************************************************************************)
(* json.loads on the argument payload of a tool call.  A payload is a      *)
(* sequence of JSON lexemes; the fragment decoded here is a scalar, a flat *)
(* list of scalars or a flat object of scalars; every other payload of the *)
(* bounded input set is not valid JSON and raises JSONDecodeError.         *)
(***************************************************************************)
JsonStrings ==
    [x \in {"\"text\"", "\"expression\"", "\"wrong_param\"", "\"ab\"", "\"a b\"",
            "\"\"", "\"1+1\""} |->
        CASE x = "\"text\"" -> <<"text">>
          [] x = "\"expression\"" -> <<"expression">>
          [] x = "\"wrong_param\"" -> <<"wrong_param">>
          [] x = "\"ab\"" -> <<"a", "b">>
          [] x = "\"a b\"" -> <<"a", " ", "b">>
          [] x = "\"\"" -> <<>>
          [] x = "\"1+1\"" -> <<"1", "+", "1">>]

JsonNumbers == [x \in {"0", "1", "2"} |-> CASE x = "0" -> 0 [] x = "1" -> 1 [] x = "2" -> 2]

IsJsonScalar(x) ==
    x \in DOMAIN JsonStrings \cup DOMAIN JsonNumbers \cup {"null", "true", "false"}

JsonScalar(x) ==
    CASE x \in DOMAIN JsonStrings -> PyStr(JsonStrings[x])
      [] x \in DOMAIN JsonNumbers -> PyInt(JsonNumbers[x])
      [] x = "null" -> PyNone
      [] x = "true" -> PyBool(TRUE)
      [] x = "false" -> PyBool(FALSE)

\* the lexemes between the brackets: items at odd places, "," at even places
IsJsonItems(s) ==
    /\ Len(s) % 2 = 1
    /\ \A i \in 1..Len(s) : IF i % 2 = 1 THEN IsJsonScalar(s[i]) ELSE s[i] = ","

\* members "key" : value separated by ","
IsJsonMembers(s) ==
    /\ Len(s) % 4 = 3
    /\ \A i \in 1..Len(s) :
          CASE i % 4 = 1 -> s[i] \in DOMAIN JsonStrings
            [] i % 4 = 2 -> s[i] = ":"
            [] i % 4 = 3 -> IsJsonScalar(s[i])
            [] OTHER -> s[i] = ","

Inner(s) == SubSeq(s, 2, Len(s) - 1)

\* the key of member k is one symbol (a name); a later duplicate key wins
JsonObject(s) ==
    LET n == (Len(s) + 1) \div 4
        keys == {JsonStrings[s[4 * k - 3]] : k \in 1..n}
        last(key) == CHOOSE k \in 1..n :
                        /\ JsonStrings[s[4 * k - 3]] = key
                        /\ \A j \in 1..n : JsonStrings[s[4 * j - 3]] = key => j <= k
    IN  [key \in keys |-> JsonScalar(s[4 * last(key) - 1])]

JsonLoads(s) ==
    IF Len(s) = 1 /\ IsJsonScalar(s[1]) THEN Return(JsonScalar(s[1]))
    ELSE IF Len(s) >= 2 /\ s[1] = "[" /\ s[Len(s)] = "]"
            /\ (Len(s) = 2 \/ IsJsonItems(Inner(s)))
    THEN Return(PyList([i \in 1..(Len(s) - 1) \div 2 |-> JsonScalar(s[2 * i])]))
    ELSE IF Len(s) >= 2 /\ s[1] = "{" /\ s[Len(s)] = "}"
            /\ (Len(s) = 2 \/ IsJsonMembers(Inner(s)))
    THEN Return(PyDict(IF Len(s) = 2 THEN <<>> ELSE JsonObject(Inner(s))))
    ELSE Raise("JSONDecodeError", <<"Expecting value">>)

(***************************************************************************)
(* The three simple tools.                                                 *)
(***************************************************************************)
Whitespace == {" ", "\t", "\n"}

RECURSIVE LStrip(_)
LStrip(s) == IF s # <<>> /\ Head(s) \in Whitespace THEN LStrip(Tail(s)) ELSE s

\* str.strip()
Strip(s) == Reverse(LStrip(Reverse(LStrip(s))))

\* len(s.split()): the number of maximal runs of non-whitespace symbols
SplitLen(s) ==
    Cardinality({i \in 1..Len(s) :
                    /\ s[i] \notin Whitespace
                    /\ (i = 1 \/ s[i - 1] \in Whitespace)})

\* the clock readings of the model
Clock ==
    {[Y |-> 2026, M |-> 1, D |-> 2, h |-> 3, m |-> 4, s |-> 5],
     [Y |-> 2026, M |-> 12, D |-> 31, h |-> 23, m |-> 59, s |-> 59]}

\* now.strftime("%Y-%m-%d %H:%M:%S")
get_current_datetime(now) ==
    Return(PyStr(Pad(now.Y, 4) \o <<"-">> \o Pad(now.M, 2) \o <<"-">> \o Pad(now.D, 2)
                 \o <<" ">> \o Pad(now.h, 2) \o <<":">> \o Pad(now.m, 2) \o <<":">>
                 \o Pad(now.s, 2)))

\* text.split() exists on str alone
count_words(text) ==
    IF text.t = "str" THEN Return(PyStr(IntStr(SplitLen(text.v))))
    ELSE Raise("AttributeError",
               <<"'", text.t, "' object has no attribute 'split'">>)

\* faulty variant of reverse_text: the first character is moved to the end
reverse_textRotates(text) ==
    IF text.t = "str"
    THEN Return(PyStr(IF text.v = <<>> THEN <<>> ELSE Tail(text.v) \o <<Head(text.v)>>))
    ELSE IF text.t = "list" THEN Return(PyList(Reverse(text.v)))
    ELSE IF text.t = "dict" THEN Raise("TypeError", <<"unhashable type: 'slice'">>)
    ELSE Raise("TypeError", <<"'", text.t, "' object is not subscriptable">>)

\* text[::-1]: a str or a list is reversed, any other value is not sliceable
reverse_text(text) ==
    IF text.t = "str" THEN Return(PyStr(Reverse(text.v)))
    ELSE IF text.t = "list" THEN Return(PyList(Reverse(text.v)))
    ELSE IF text.t = "dict" THEN Raise("TypeError", <<"unhashable type: 'slice'">>)
    ELSE Raise("TypeError", <<"'", text.t, "' object is not subscriptable">>)

(***************************************************************************)
(* The calculator: ast.parse on the expression, then _safe_eval.           *)
(*                                                                         *)
(* The source text is a sequence of symbols: digits, blanks and the        *)
(* lexemes below.  The parser covers the arithmetic fragment of Python's   *)
(* expression grammar (binary and unary operators with their precedence,   *)
(* parentheses, names, string literals, the comparison <, tuples, calls    *)
(* with positional and keyword arguments, none of them starred); on the    *)
(* texts of these symbols without * or ** at the start of an argument or   *)
(* element, it accepts what ast.parse accepts, with the same tree.         *)
(***************************************************************************)
Digits == {"0", "1", "2", "3", "4", "5", "6", "7", "8", "9"}
OpLexemes == {"+", "-", "*", "/", "**", "%", "//", "@", "~", "<", "=", "(", ")", ","}
NameLexemes == {"sqrt", "fabs", "pi", "os", "malicious", "x"}
\* the string literals, each with the string it denotes
StrLexemes == [x \in {"'a'"} |-> <<"a">>]

DigitVal(c) == CHOOSE d \in 0..9 : Digit(d) = c

RECURSIVE LexNum(_, _)
\* the digit run at the head of s: its value so far is n
LexNum(s, n) ==
    IF s # <<>> /\ Head(s) \in Digits THEN LexNum(Tail(s), 10 * n + DigitVal(Head(s)))
    ELSE [v |-> n, rest |-> s]

RECURSIVE Lex(_)
\* the tokens of s; blanks separate tokens and are dropped
Lex(s) ==
    IF s = <<>> THEN <<>>
    ELSE IF Head(s) \in Whitespace THEN Lex(Tail(s))
    ELSE IF Head(s) \in Digits
         THEN LET r == LexNum(s, 0)
              IN  \* a decimal literal other than zero has no leading zero
                  <<[k |-> IF Head(s) = "0" /\ r.v # 0 THEN "bad" ELSE "num", v |-> r.v]>>
                  \o Lex(r.rest)
    ELSE IF Head(s) \in DOMAIN StrLexemes
         THEN LET rest == Lex(Tail(s))
              IN  \* adjacent string literals are one literal
                  IF rest # <<>> /\ Head(rest).k = "str"
                  THEN <<[k |-> "str", v |-> StrLexemes[Head(s)] \o Head(rest).v]>>
                       \o Tail(rest)
                  ELSE <<[k |-> "str", v |-> StrLexemes[Head(s)]]>> \o rest
    ELSE <<[k |-> CASE Head(s) \in OpLexemes -> "op"
                    [] Head(s) \in NameLexemes -> "name"
                    [] OTHER -> "bad",
            v |-> Head(s)]>> \o Lex(Tail(s))

Constant(value) == [type |-> "Constant", value |-> value]
Name(id) == [type |-> "Name", id |-> id]
BinOp(op, left, right) == [type |-> "BinOp", op |-> op, left |-> left, right |-> right]
UnaryOp(op, operand) == [type |-> "UnaryOp", op |-> op, operand |-> operand]
Call(func, args, keywords) ==
    [type |-> "Call", func |-> func, args |-> args, keywords |-> keywords]
\* name=value among the arguments of a call
Keyword(arg, value) == [type |-> "keyword", arg |-> arg, value |-> value]
\* a comparison (one node for each <; a chain a < b < c is therefore nested here,
\* where ast.parse makes one Compare node of it)
Compare(left, right) == [type |-> "Compare", left |-> left, right |-> right]
Tuple(elts) == [type |-> "Tuple", elts |-> elts]
Expression(body) == [type |-> "Expression", body |-> body]

\* the ast operator class of a lexeme
BinOpClass(x) ==
    CASE x = "+" -> "Add" [] x = "-" -> "Sub" [] x = "*" -> "Mult" [] x = "/" -> "Div"
      [] x = "**" -> "Pow" [] x = "%" -> "Mod" [] x = "//" -> "FloorDiv"
      [] x = "@" -> "MatMult" [] x = "<" -> "Lt"
UnaryOpClass(x) == CASE x = "+" -> "UAdd" [] x = "-" -> "USub" [] x = "~" -> "Invert"

\* The parser keeps a stack of parsed operands (out) and a stack of pending operators
\* and open brackets (ops).  Binding strength: < (0), + - (1), * / % // @ (2),
\* unary (3), ** (4).
UnOp(op) == [k |-> "un", v |-> op]
BinaryOp(op) == [k |-> "bin", v |-> op]
\* an open parenthesis with n commas read in it so far
OpenParen(n) == [k |-> "paren", v |-> n]
\* the bottom of ops: the top level of the text, with n commas read at it so far
TopLevel(n) == [k |-> "top", v |-> n]
\* the bracket of a call whose callee is on out, with n arguments complete
OpenCall(n) == [k |-> "call", v |-> n]
\* "name =" read at the start of an argument: the value follows
KeywordMark(name) == [k |-> "kw", v |-> name]

Top(stack) == stack[Len(stack)]
Pop(stack) == SubSeq(stack, 1, Len(stack) - 1)
PopN(stack, n) == SubSeq(stack, 1, Len(stack) - n)

Prec(o) ==
    CASE o.k = "un" -> 3
      [] o.v = "Lt" -> 0
      [] o.v \in {"Add", "Sub"} -> 1
      [] o.v = "Pow" -> 4
      [] OTHER -> 2

\* faulty variant of LeftLevel: ** groups to the left like the other operators
LeftLevelGroupsLeft(op) == Prec(BinaryOp(op))

\* the strength a pending operator needs to be applied before the binary operator op
\* takes its left operand: ** groups to the right, the others to the left
LeftLevel(op) == IF op = "Pow" THEN 5 ELSE Prec(BinaryOp(op))

IsOp(toks, ops) == toks # <<>> /\ Head(toks).k = "op" /\ Head(toks).v \in ops

RECURSIVE ReduceWhile(_, _, _)
\* apply the pending operators on top of ops that bind with strength p or more
ReduceWhile(out, ops, p) ==
    IF Top(ops).k \in {"bin", "un"} /\ Prec(Top(ops)) >= p
    THEN IF Top(ops).k = "bin"
         THEN ReduceWhile(Append(PopN(out, 2),
                                 IF Top(ops).v = "Lt"
                                 THEN Compare(out[Len(out) - 1], out[Len(out)])
                                 ELSE BinOp(Top(ops).v, out[Len(out) - 1], out[Len(out)])),
                          Pop(ops), p)
         ELSE ReduceWhile(Append(Pop(out), UnaryOp(Top(ops).v, Top(out))), Pop(ops), p)
    ELSE [out |-> out, ops |-> ops]

\* the end of an argument: the operators pending in it are applied, and the value of
\* a keyword argument is joined with its name
CloseArgument(out, ops) ==
    LET r == ReduceWhile(out, ops, 0)
    IN  IF Top(r.ops).k = "kw"
        THEN [out |-> Append(Pop(r.out), Keyword(Top(r.ops).v, Top(r.out))),
              ops |-> Pop(r.ops)]
        ELSE r

\* no positional argument follows a keyword argument
ArgsInOrder(items) ==
    \A i \in 1..Len(items) : \A j \in (i + 1)..Len(items) :
        items[i].type = "keyword" => items[j].type = "keyword"

\* the closing parenthesis of a call with n arguments: callee and arguments leave out
CloseCall(out, n) ==
    LET items == SubSeq(out, Len(out) - n + 1, Len(out))
    IN  Append(PopN(out, n + 1),
               Call(out[Len(out) - n],
                    SelectSeq(items, LAMBDA a : a.type # "keyword"),
                    SelectSeq(items, LAMBDA a : a.type = "keyword")))

\* the last n operands become one tuple
CloseTuple(out, n) ==
    Append(PopN(out, n), Tuple(SubSeq(out, Len(out) - n + 1, Len(out))))

\* the arguments of the call about to be closed are in an order Python accepts
CallInOrder(out, n) == ArgsInOrder(SubSeq(out, Len(out) - n + 1, Len(out)))

\* the tokens start a keyword argument: a name and "=" right after the bracket or the
\* comma of a call
IsKeyword(toks, ops) ==
    /\ Len(toks) >= 2
    /\ toks[1].k = "name"
    /\ toks[2].k = "op" /\ toks[2].v = "="
    /\ Top(ops).k = "call"

ParseOk(node) == [ok |-> TRUE, node |-> node]
ParseFail == [ok |-> FALSE, node |-> <<>>]

\* the parser after a token: the tokens left, the operands, the pending operators, and
\* whether an operand must come next
Shifted(toks, out, ops, expect) ==
    [ok |-> TRUE, toks |-> toks, out |-> out, ops |-> ops, expect |-> expect]

\* the parser takes the next token
Shift(toks, out, ops, expect) ==
    IF expect
    THEN CASE Head(toks).k = "num" ->
                Shifted(Tail(toks), Append(out, Constant(PyInt(Head(toks).v))), ops, FALSE)
           [] Head(toks).k = "name" /\ IsKeyword(toks, ops) ->
                Shifted(Tail(Tail(toks)), out, Append(ops, KeywordMark(Head(toks).v)), TRUE)
           [] Head(toks).k = "name" /\ ~IsKeyword(toks, ops) ->
                Shifted(Tail(toks), Append(out, Name(Head(toks).v)), ops, FALSE)
           [] Head(toks).k = "str" ->
                Shifted(Tail(toks), Append(out, Constant(PyStr(Head(toks).v))), ops, FALSE)
           [] IsOp(toks, {"+", "-", "~"}) ->
                Shifted(Tail(toks), out, Append(ops, UnOp(UnaryOpClass(Head(toks).v))), TRUE)
           [] IsOp(toks, {"("}) ->
                Shifted(Tail(toks), out, Append(ops, OpenParen(0)), TRUE)
           [] IsOp(toks, {")"}) /\ Top(ops).k = "call" ->
                \* f() or a trailing comma: f(x,)
                IF CallInOrder(out, Top(ops).v)
                THEN Shifted(Tail(toks), CloseCall(out, Top(ops).v), Pop(ops), FALSE)
                ELSE ParseFail
           [] IsOp(toks, {")"}) /\ Top(ops).k = "paren" ->
                \* the empty tuple () or a trailing comma: (x,)
                Shifted(Tail(toks), CloseTuple(out, Top(ops).v), Pop(ops), FALSE)
           [] OTHER -> ParseFail
    ELSE CASE IsOp(toks, {"+", "-", "*", "/", "%", "//", "@", "**", "<"}) ->
                LET op == BinOpClass(Head(toks).v)
                    r == ReduceWhile(out, ops, LeftLevel(op))
                IN  Shifted(Tail(toks), r.out, Append(r.ops, BinaryOp(op)), TRUE)
           [] IsOp(toks, {"("}) ->
                Shifted(Tail(toks), out, Append(ops, OpenCall(0)), TRUE)
           [] IsOp(toks, {","}) ->
                \* one more argument of a call, or one more element of a tuple
                LET r == CloseArgument(out, ops)
                IN  Shifted(Tail(toks), r.out,
                          Append(Pop(r.ops), [Top(r.ops) EXCEPT !.v = @ + 1]), TRUE)
           [] IsOp(toks, {")"}) ->
                LET r == CloseArgument(out, ops)
                IN  IF Top(r.ops).k = "top" THEN ParseFail
                    ELSE IF Top(r.ops).k = "paren"
                    THEN Shifted(Tail(toks),
                               IF Top(r.ops).v = 0 THEN r.out
                               ELSE CloseTuple(r.out, Top(r.ops).v + 1),
                               Pop(r.ops), FALSE)
                    ELSE IF CallInOrder(r.out, Top(r.ops).v + 1)
                    THEN Shifted(Tail(toks), CloseCall(r.out, Top(r.ops).v + 1),
                               Pop(r.ops), FALSE)
                    ELSE ParseFail
           [] OTHER -> ParseFail

RECURSIVE Parse(_, _, _, _)
\* the parser goes on from where the token has left it
Continue(s) == IF s.ok THEN Parse(s.toks, s.out, s.ops, s.expect) ELSE ParseFail

\* expect: an operand (or a prefix operator) must come next
Parse(toks, out, ops, expect) ==
    IF toks = <<>>
    THEN IF expect
         THEN \* the text may end after the comma of a tuple: "1,"
              IF Top(ops).k = "top" /\ Top(ops).v > 0 THEN ParseOk(Tuple(out))
              ELSE ParseFail
         ELSE LET r == ReduceWhile(out, ops, 0)
              IN  IF Top(r.ops).k # "top" THEN ParseFail
                  ELSE IF Top(r.ops).v > 0 THEN ParseOk(Tuple(r.out))
                  ELSE ParseOk(r.out[1])
    ELSE Continue(Shift(toks, out, ops, expect))

\* what ast.parse hands back: the Expression node, or a SyntaxError
Parsed(p) ==
    IF p.ok THEN Return(Expression(p.node))
    ELSE Raise("SyntaxError", <<"invalid syntax">>)

\* ast.parse(source, mode="eval")
AstParse(source) == Parsed(Parse(Lex(source), <<>>, <<TopLevel(0)>>, TRUE))

(***************************************************************************)
(* Float arithmetic.  _safe_eval computes in IEEE doubles (float(node.value) *)
(* on every literal).  A double of the model is <<n, d>>: the value n/d in  *)
(* lowest terms with d a power of two, which a double holds exactly while   *)
(* n and d stay below the limits FollowedNum and FollowedDen; the result of *)
(* an operation on such values is their exact result when that is such a    *)
(* value again (IEEE operations are correctly rounded).  Every other        *)
(* double (a rounded result, a value beyond the limits, pi) is <<>>: the    *)
(* model does not follow its value.  Where such a value decides whether an  *)
(* operation raises (a divisor, an operand of **, the argument of sqrt),    *)
(* the outcome is NotFollowed, and so is the text calculator returns.       *)
(***************************************************************************)
\* a followed double has |n| < FollowedNum and d <= FollowedDen: its decimal expansion
\* then has at most 14 significant digits, and str() shows exactly these
FollowedNum == 32768
FollowedDen == 8192

Abs(n) == IF n < 0 THEN -n ELSE n

RECURSIVE Gcd(_, _)
Gcd(a, b) == IF b = 0 THEN a ELSE Gcd(b, a % b)

RECURSIVE IsPow2(_)
IsPow2(d) == d = 1 \/ (d > 1 /\ d % 2 = 0 /\ IsPow2(d \div 2))

\* a float whose value the model does not follow
Inexact == [t |-> "float", v |-> <<>>]
\* a complex number (their values are not followed)
PyComplex == [t |-> "complex", v |-> <<>>]
Builtin(name) == [t |-> "builtin_function_or_method", v |-> name]

\* the double nearest to n/d (d # 0)
PyFloat(n, d) ==
    LET g == Gcd(Abs(n), Abs(d))
        sg == IF d < 0 THEN -1 ELSE 1
        num == sg * (n \div g)
        den == sg * (d \div g)
    IN  IF Abs(num) < FollowedNum /\ den <= FollowedDen /\ IsPow2(den)
        THEN [t |-> "float", v |-> <<num, den>>]
        ELSE Inexact

IsExact(x) == x.t = "float" /\ x.v # <<>>
Num(x) == x.v[1]
Den(x) == x.v[2]

\* x * y, or FollowedNum when the product is FollowedNum or more (0 <= x, y <= FollowedNum)
SatMul(x, y) == IF x * y >= FollowedNum THEN FollowedNum ELSE x * y

RECURSIVE IntPow(_, _)
\* b to the power e for b, e >= 0, or FollowedNum when that is FollowedNum or more
IntPow(b, e) ==
    IF e = 0 THEN 1
    ELSE IF e % 2 = 0 THEN IntPow(SatMul(b, b), e \div 2)
    ELSE SatMul(b, IntPow(SatMul(b, b), e \div 2))

\* the double a to the power e, for a followed double a and an integer e >= 0
FloatPow(a, e) ==
    LET n == IntPow(Abs(Num(a)), e)
        d == IntPow(Den(a), e)
        sg == IF Num(a) < 0 /\ e % 2 = 1 THEN -1 ELSE 1
    IN  IF n >= FollowedNum \/ d > FollowedDen THEN Inexact ELSE PyFloat(sg * n, d)

\* doubles are below 2 to the power MaxExponent
MaxExponent == 1024

RECURSIVE Lg(_, _)
\* the largest k >= 0 with d * 2^k <= n, or 0 when n < d (n, d > 0)
Lg(n, d) == IF n < 2 * d THEN 0 ELSE 1 + Lg(n, 2 * d)

\* k with 2^k <= |a| < 2^(k+1) for a followed double |a| >= 1, and 0 for a smaller one
\* (a # 0); for up = FALSE the same of 1/a
Magnitude(a, up) ==
    IF up THEN Lg(Abs(Num(a)), Den(a)) ELSE Lg(Den(a), Abs(Num(a)))

\* the power of the followed double a # 0 with the integer exponent e is 2 to the power
\* MaxExponent or more
PowOverflows(a, e) == Magnitude(a, e >= 0) * Abs(e) >= MaxExponent

\* the power of the followed double a # 0 with the followed exponent b is below 2 to
\* the power MaxExponent
PowInRange(a, b) ==
    (Magnitude(a, Num(b) >= 0) + 1) * ((Abs(Num(b)) + Den(b) - 1) \div Den(b)) <= MaxExponent

\* an outcome the model does not follow: a float, or an exception, decided by the value
\* of a float that is not followed
NotFollowed == [exc |-> TRUE, val |-> PyStr(<<"<not followed>">>), kind |-> "NotFollowed"]

\* floor(x / y) for integers x and y # 0
FloorDivide(x, y) == IF y > 0 THEN x \div y ELSE (-x) \div (-y)

\* x - floor(x / y) * y: the remainder with the sign of y
FloorModulo(x, y) == IF y > 0 THEN x % y ELSE -((-x) % (-y))

\* the integer r >= 0 with r * r = n, or -1
IntSqrt(n) == IF \E r \in 0..n : r * r = n THEN CHOOSE r \in 0..n : r * r = n ELSE -1

\* _SAFE_OPERATORS: the operator classes with an entry
SAFE_OPERATORS == {"Add", "Sub", "Mult", "Div", "Pow", "Mod", "FloorDiv", "USub", "UAdd"}

\* _SAFE_NAMES: the public names of the math module (those of the model)
SAFE_NAMES == {"sqrt", "fabs", "pi"}

SafeName(id) == IF id = "pi" THEN Inexact ELSE Builtin(id)

IsNumber(x) == x.t \in {"float", "complex"}

\* how the messages of TypeError name an operator
OpSymbol(op) ==
    CASE op = "Add" -> "+" [] op = "Sub" -> "-" [] op = "Mult" -> "*" [] op = "Div" -> "/"
      [] op = "Pow" -> "** or pow()" [] op = "Mod" -> "%" [] op = "FloorDiv" -> "//"
      [] op = "USub" -> "-" [] op = "UAdd" -> "+"

\* op_fn(a, b) of a binary operator on two evaluated operands
ApplyBinOp(op, a, b) ==
    IF ~IsNumber(a) \/ ~IsNumber(b)
    THEN Raise("TypeError", <<"unsupported operand type(s) for ", OpSymbol(op), ": '",
                              a.t, "' and '", b.t, "'">>)
    ELSE IF op \in {"Mod", "FloorDiv"} /\ "complex" \in {a.t, b.t}
    THEN Raise("TypeError", <<"unsupported operand type(s) for ", OpSymbol(op), ": '",
                              a.t, "' and '", b.t, "'">>)
    ELSE IF op \in {"Div", "Mod", "FloorDiv"} /\ IsExact(b) /\ Num(b) = 0
    THEN Raise("ZeroDivisionError",
               CASE a.t = "complex" -> <<"complex division by zero">>
                 [] a.t # "complex" /\ op = "Div" -> <<"float division by zero">>
                 [] a.t # "complex" /\ op = "Mod" -> <<"float modulo">>
                 [] OTHER -> <<"float floor division by zero">>)
    ELSE IF op = "Pow" /\ IsExact(a) /\ IsExact(b) /\ Num(a) = 0 /\ Num(b) < 0
    THEN Raise("ZeroDivisionError", <<"0.0 cannot be raised to a negative power">>)
    ELSE IF op = "Pow" /\ ~(IsExact(a) /\ IsExact(b)) THEN NotFollowed
    ELSE IF op \in {"Div", "Mod", "FloorDiv"} /\ ~IsExact(b) THEN NotFollowed
    ELSE IF "complex" \in {a.t, b.t} THEN Return(PyComplex)
    ELSE IF ~IsExact(a) \/ ~IsExact(b) THEN Return(Inexact)
    ELSE CASE op = "Add" -> Return(PyFloat(Num(a) * Den(b) + Num(b) * Den(a), Den(a) * Den(b)))
           [] op = "Sub" -> Return(PyFloat(Num(a) * Den(b) - Num(b) * Den(a), Den(a) * Den(b)))
           [] op = "Mult" -> Return(PyFloat(Num(a) * Num(b), Den(a) * Den(b)))
           [] op = "Div" -> Return(PyFloat(Num(a) * Den(b), Den(a) * Num(b)))
           [] op = "FloorDiv" ->
                Return(PyFloat(FloorDivide(Num(a) * Den(b), Den(a) * Num(b)), 1))
           [] op = "Mod" ->
                Return(PyFloat(FloorModulo(Num(a) * Den(b), Den(a) * Num(b)),
                               Den(a) * Den(b)))
           [] op = "Pow" ->
                IF Num(a) = 0 THEN Return(PyFloat(IF Num(b) = 0 THEN 1 ELSE 0, 1))
                ELSE IF Den(b) # 1
                THEN IF ~PowInRange(a, b) THEN NotFollowed
                     ELSE IF Num(a) < 0 THEN Return(PyComplex) ELSE Return(Inexact)
                ELSE IF PowOverflows(a, Num(b))
                THEN Raise("OverflowError", <<"(34, 'Numerical result out of range')">>)
                ELSE IF ~PowInRange(a, b) THEN NotFollowed
                ELSE IF Num(b) >= 0 THEN Return(FloatPow(a, Num(b)))
                ELSE LET p == FloatPow(a, -Num(b))
                     IN  IF IsExact(p) THEN Return(PyFloat(Den(p), Num(p)))
                         ELSE Return(Inexact)

\* op_fn(a) of a unary operator
ApplyUnaryOp(op, a) ==
    IF ~IsNumber(a)
    THEN Raise("TypeError", <<"bad operand type for unary ", OpSymbol(op), ": '", a.t, "'">>)
    ELSE IF ~IsExact(a) THEN Return(a)
    ELSE IF op = "USub" THEN Return(PyFloat(-Num(a), Den(a)))
    ELSE Return(a)

\* func(*args) of a math function
ApplyFunc(func, args) ==
    IF Len(args) # 1
    THEN Raise("TypeError", <<"math.", func.v, "() takes exactly one argument (">>
                            \o IntStr(Len(args)) \o <<" given)">>)
    ELSE IF args[1].t # "float"
    THEN Raise("TypeError", <<"must be real number, not ", args[1].t>>)
    ELSE IF ~IsExact(args[1])
    THEN IF func.v = "fabs" THEN Return(Inexact) ELSE NotFollowed
    ELSE IF func.v = "fabs" THEN Return(PyFloat(Abs(Num(args[1])), Den(args[1])))
    ELSE IF Num(args[1]) < 0 THEN Raise("ValueError", <<"math domain error">>)
    ELSE IF IntSqrt(Num(args[1])) >= 0 /\ IntSqrt(Den(args[1])) >= 0
    THEN Return(PyFloat(IntSqrt(Num(args[1])), IntSqrt(Den(args[1]))))
    ELSE Return(Inexact)

\* the digits of rem/d after the decimal point, at most k of them
RECURSIVE FracDigits(_, _, _)
FracDigits(rem, d, k) ==
    IF rem = 0 \/ k = 0 THEN <<>>
    ELSE <<Digit((10 * rem) \div d)>> \o FracDigits((10 * rem) % d, d, k - 1)

\* at most this many digits follow the decimal point in str() of a float (a float
\* the model follows has fewer)
FloatDigits == 16

\* str(result) of an evaluated value
PyStrOf(x) ==
    CASE x.t = "float" /\ ~IsExact(x) -> <<"<float>">>
      [] x.t = "float" /\ IsExact(x) ->
            LET a == Abs(Num(x))
            IN  (IF Num(x) < 0 THEN <<"-">> ELSE <<>>) \o NatStr(a \div Den(x)) \o <<".">>
                \o (IF a % Den(x) = 0 THEN <<"0">>
                    ELSE FracDigits(a % Den(x), Den(x), FloatDigits))
      [] x.t = "int" -> IntStr(x.v)
      [] x.t = "complex" -> <<"<complex>">>
      [] OTHER -> <<"<built-in function ", x.v, ">">>

RECURSIVE SafeEval(_), SafeEvalArgs(_, _)

\* [_safe_eval(a) for a in node.args]: acc holds the values so far
SafeEvalArgs(args, acc) ==
    IF args = <<>> THEN Return(acc)
    ELSE LET a == SafeEval(Head(args))
         IN  IF a.exc THEN a ELSE SafeEvalArgs(Tail(args), Append(acc, a.val))

SafeEval(node) ==
    CASE node.type = "Expression" -> SafeEval(node.body)
      [] node.type = "Constant" ->
            IF node.value.t = "int" THEN Return(PyFloat(node.value.v, 1))
            ELSE IF node.value.t = "float" THEN Return(node.value)
            ELSE IF node.value.t = "bool" THEN Return(PyFloat(IF node.value.v THEN 1 ELSE 0, 1))
            ELSE Raise("ValueError", <<"Unsupported constant: ", "'">> \o node.value.v
                                     \o <<"'">>)
      [] node.type = "Name" ->
            IF node.id \in SAFE_NAMES THEN Return(SafeName(node.id))
            ELSE Raise("ValueError", <<"Unknown name: '", node.id, "'">>)
      [] node.type = "BinOp" ->
            IF node.op \notin SAFE_OPERATORS
            THEN Raise("ValueError", <<"Unsupported operator: ", node.op>>)
            ELSE LET l == SafeEval(node.left)
                 IN  IF l.exc THEN l
                     ELSE LET r == SafeEval(node.right)
                          IN  IF r.exc THEN r ELSE ApplyBinOp(node.op, l.val, r.val)
      [] node.type = "UnaryOp" ->
            IF node.op \notin SAFE_OPERATORS
            THEN Raise("ValueError", <<"Unsupported unary operator: ", node.op>>)
            ELSE LET a == SafeEval(node.operand)
                 IN  IF a.exc THEN a ELSE ApplyUnaryOp(node.op, a.val)
      [] node.type = "Call" ->
            LET func == SafeEval(node.func)
            IN  IF func.exc THEN func
                ELSE IF func.val.t # "builtin_function_or_method"
                THEN Raise("ValueError", <<"Not callable: ">> \o PyStrOf(func.val))
                ELSE LET args == SafeEvalArgs(node.args, <<>>)
                     IN  IF args.exc THEN args ELSE ApplyFunc(func.val, args.val)
      [] OTHER -> Raise("ValueError", <<"Unsupported AST node: ", node.type>>)

\* faulty variant of calculator: "except (SyntaxError, ValueError)" in place of
\* "except Exception"
calculatorCatchesValueError(expression) ==
    IF expression.t # "str"
    THEN Raise("AttributeError", <<"'", expression.t, "' object has no attribute 'strip'">>)
    ELSE LET tree == AstParse(Strip(expression.v))
             result == SafeEval(tree.val)
         IN  IF tree.exc THEN Return(PyStr(<<"Error: ">> \o tree.val.v))
             ELSE IF result = NotFollowed THEN Return(NotFollowed.val)
             ELSE IF result.exc /\ result.kind = "ValueError"
             THEN Return(PyStr(<<"Error: ">> \o result.val.v))
             ELSE IF result.exc THEN result
             ELSE IF IsExact(result.val) /\ Den(result.val) = 1
             THEN Return(PyStr(IntStr(Num(result.val))))
             ELSE Return(PyStr(PyStrOf(result.val)))

\* what calculator returns once _safe_eval has come back: "Error: " and the message of
\* its exception, str(int(result)) for a whole result, str(result) for any other
Evaluated(result) ==
    IF result = NotFollowed THEN Return(NotFollowed.val)
    ELSE IF result.exc THEN Return(PyStr(<<"Error: ">> \o result.val.v))
    ELSE IF IsExact(result.val) /\ Den(result.val) = 1
    THEN Return(PyStr(IntStr(Num(result.val))))
    ELSE Return(PyStr(PyStrOf(result.val)))

\* what calculator returns once ast.parse has come back
Evaluate(tree) ==
    IF tree.exc THEN Return(PyStr(<<"Error: ">> \o tree.val.v))
    ELSE Evaluated(SafeEval(tree.val))

calculator(expression) ==
    IF expression.t # "str"
    THEN Return(PyStr(<<"Error: ", "'", expression.t, "' object has no attribute 'strip'">>))
    ELSE Evaluate(AstParse(Strip(expression.v)))

(***************************************************************************)
(* The dispatcher.                                                         *)
(***************************************************************************)
\* the keyword parameters of each registered tool (all required)
TOOL_REGISTRY ==
    [name \in {"calculator", "get_current_datetime", "count_words", "reverse_text"} |->
        CASE name = "calculator" -> {<<"expression">>}
          [] name = "get_current_datetime" -> {}
          [] OTHER -> {<<"text">>}]

\* fn(**tool_args): the keywords are bound to the parameters, then fn runs
CallTool(tool_name, tool_args, now) ==
    LET params == TOOL_REGISTRY[tool_name]
    IN  IF tool_args.t # "dict"
        THEN Raise("TypeError", <<"single_agent.tools.", tool_name,
                                  "() argument after ** must be a mapping, not ",
                                  tool_args.t>>)
        ELSE IF DOMAIN tool_args.v \ params # {}
        THEN Raise("TypeError",
                   <<tool_name, "() got an unexpected keyword argument '">>
                   \o (CHOOSE k \in DOMAIN tool_args.v \ params : TRUE) \o <<"'">>)
        ELSE IF params \ DOMAIN tool_args.v # {}
        THEN Raise("TypeError",
                   <<tool_name, "() missing 1 required positional argument: '">>
                   \o (CHOOSE k \in params \ DOMAIN tool_args.v : TRUE) \o <<"'">>)
        ELSE CASE tool_name = "calculator" -> calculator(tool_args.v[<<"expression">>])
               [] tool_name = "get_current_datetime" -> get_current_datetime(now)
               [] tool_name = "count_words" -> count_words(tool_args.v[<<"text">>])
               [] tool_name = "reverse_text" -> reverse_text(tool_args.v[<<"text">>])

\* "except Exception as exc": the exception of the tool becomes the returned text
Caught(tool_name, r) ==
    IF r.exc THEN Return(PyStr(<<"Error calling '", tool_name, "': ">> \o r.val.v))
    ELSE r

\* faulty variant of dispatch: the registry is indexed, so that a name without an
\* entry raises KeyError
dispatchIndexesRegistry(tool_name, tool_args, now) ==
    IF tool_name \notin DOMAIN TOOL_REGISTRY
    THEN Raise("KeyError", <<"'", tool_name, "'">>)
    ELSE LET r == CallTool(tool_name, tool_args, now)
         IN  IF r.exc
             THEN Return(PyStr(<<"Error calling '", tool_name, "': ">> \o r.val.v))
             ELSE r

\* faulty variant of dispatch: "except TypeError" in place of "except Exception"
dispatchCatchesTypeError(tool_name, tool_args, now) ==
    IF tool_name \notin DOMAIN TOOL_REGISTRY
    THEN Return(PyStr(<<"Error: unknown tool '", tool_name, "'">>))
    ELSE LET r == CallTool(tool_name, tool_args, now)
         IN  IF r.exc /\ r.kind = "TypeError"
             THEN Return(PyStr(<<"Error calling '", tool_name, "': ">> \o r.val.v))
             ELSE r

\* the outcome of dispatch(tool_name, tool_args) for a name that is a str, with the
\* clock reading the tool may take
dispatch(tool_name, tool_args, now) ==
    IF tool_name \notin DOMAIN TOOL_REGISTRY
    THEN Return(PyStr(<<"Error: unknown tool '", tool_name, "'">>))
    ELSE Caught(tool_name, CallTool(tool_name, tool_args, now))

(***************************************************************************)
(* The conversation orchestrator: class Agent.                             *)
(***************************************************************************)
VARIABLES
    messages,         \* self._messages
    max_tool_rounds,  \* self._max_tool_rounds
    pc,               \* where the turn in progress stands ("idle": none in progress)
    round,            \* the iterations of "for _ in range(max_tool_rounds)" completed
    tool_calls,       \* assistant_msg.tool_calls of the iteration in progress
    idx,              \* how many of tool_calls the inner for loop has handled
    full_reply,       \* chat_stream's local full_reply
    chunks,           \* the chunks the open stream has delivered
    method,           \* the last method called on the Agent
    before,           \* self._messages as that call found it
    requests,         \* the model requests of that call, in order, each with its answer
    dispatched,       \* the dispatch calls of that call, in order
    yielded,          \* what that call has yielded to its caller
    outcome,          \* how that call ended, as its caller sees it
    test_call         \* a call made on the tools module directly (as the tests do)

vars == <<messages, max_tool_rounds, pc, round, tool_calls, idx, full_reply, chunks,
          method, before, requests, dispatched, yielded, outcome, test_call>>

\* the locals of the turn in progress
locals == <<round, tool_calls, idx, full_reply, chunks>>

DEFAULT_SYSTEM_PROMPT == <<"You are a helpful AI assistant with access to a set of tools. ">>

\* the text chat returns and chat_stream yields when the rounds are used up
Fallback ==
    <<"Agent reached the maximum number of tool-call rounds without a final answer.">>

\* faulty variant of ToolMessage: the tool's name is sent as the correlation id
ToolMessageNamesTool(tool_call) ==
    [role |-> "tool", tool_call_id |-> <<tool_call.tool_name>>, content |-> tool_call.result]

\* the entries of self._messages
SystemMessage(system_prompt) == [role |-> "system", content |-> PyStr(system_prompt)]
UserMessage(user_message) == [role |-> "user", content |-> PyStr(user_message)]
ToolMessage(tool_call) ==
    [role |-> "tool", tool_call_id |-> tool_call.id, content |-> tool_call.result]
StreamedMessage(reply) == [role |-> "assistant", content |-> PyStr(reply)]
\* assistant_msg.model_dump(exclude_unset=False): the fields the loop reads
AssistantDump(assistant_msg) ==
    [role |-> "assistant", content |-> assistant_msg.content,
     tool_calls |-> assistant_msg.tool_calls]

(***************************************************************************)
(* The inputs: what the user sends and what the model collaborator         *)
(* answers.                                                                *)
(***************************************************************************)
UserMessages == {<<"hello">>}

\* the function parts of the tool-call requests the model emits, in a fixed cycle:
\* a payload that is not valid JSON, a well-formed call, a tool that does not exist
ToolCallFns ==
    <<[name |-> "calculator", arguments |-> <<"{", "\"expression\"", ":">>],
      [name |-> "reverse_text", arguments |-> <<"{", "\"text\"", ":", "\"ab\"", "}">>],
      [name |-> "does_not_exist", arguments |-> <<"{", "}">>]>>

CallId(i) == <<"call_", Digit(i)>>

\* the tool-call lists of an answer: for each n in 1..MaxCalls the n requests taken from
\* the cycle at offset n, the i-th with id CallId(i)
ToolCallLists ==
    {[i \in 1..n |-> [id |-> CallId(i),
                      function |-> ToolCallFns[((n + i) % Len(ToolCallFns)) + 1]]] :
        n \in 1..MaxCalls}

\* choice.message of a non-streamed answer: without tool-call requests (the list absent
\* with a text, the list empty with no text; the loop reads the two fields separately)
\* or with one of the request lists and no text
AssistantMsgs ==
    {[content |-> PyStr(<<"a">>), tool_calls |-> PyNone],
     [content |-> PyNone, tool_calls |-> PyList(<<>>)]}
    \cup [content : {PyNone}, tool_calls : {PyList(l) : l \in ToolCallLists}]

Letter(i) == <<"a", "b", "c", "d", "e", "f", "g", "h">>[i]

\* delta.content of the i-th chunk of a stream: no text, empty text or one letter
Deltas(i) == {PyNone, PyStr(<<>>), PyStr(<<Letter(i)>>)}

NoOutcome == [kind |-> "none", value |-> PyNone]

\* no call on the tools module has been made
NoCall == [fn |-> "none", args |-> <<>>, out |-> Return(PyNone)]

Init ==
    /\ messages = <<SystemMessage(DEFAULT_SYSTEM_PROMPT)>>
    /\ max_tool_rounds \in 1..MaxRounds
    /\ pc = "idle"
    /\ round = 0
    /\ tool_calls = <<>>
    /\ idx = 0
    /\ full_reply = <<>>
    /\ chunks = 0
    /\ method = "__init__"
    /\ before = <<>>
    /\ requests = <<>>
    /\ dispatched = <<>>
    /\ yielded = <<>>
    /\ outcome = NoOutcome
    /\ test_call = NoCall

(***************************************************************************)
(* Steps shared by chat and chat_stream (the two methods repeat the code). *)
(***************************************************************************)
\* a request to self._client.chat.completions.create and how it was answered
Request(tool_choice, stream, sent, answer) ==
    [tool_choice |-> tool_choice, stream |-> stream, messages |-> sent, answer |-> answer]

\* faulty variant of HasRound: the loop runs one iteration too many
HasRoundOffByOne(r) == r <= max_tool_rounds

\* "for _ in range(self._max_tool_rounds)": is there an iteration after r of them
HasRound(r) == r < max_tool_rounds

\* "if not assistant_msg.tool_calls"
IsFinal(assistant_msg) == ~Truthy(assistant_msg.tool_calls)

\* faulty variant of FinalAnswer: the content is returned as it is, None included
FinalAnswerRaw(assistant_msg) == assistant_msg.content

\* "assistant_msg.content or ''"
FinalAnswer(assistant_msg) ==
    IF Truthy(assistant_msg.content) THEN assistant_msg.content ELSE PyStr(<<>>)

\* faulty variant of DecodeArgs: a payload that does not decode yields None
DecodeArgsNone(arguments) ==
    IF JsonLoads(arguments).exc THEN PyNone ELSE JsonLoads(arguments).val

\* try: json.loads(arguments) except json.JSONDecodeError: {}
DecodeArgs(arguments) ==
    LET r == JsonLoads(arguments)
    IN  IF r.exc THEN PyDict(<<>>) ELSE r.val

\* one iteration of "for tool_call in assistant_msg.tool_calls" up to the dispatch
RunToolCall(tool_call, now) ==
    [id |-> tool_call.id,
     tool_name |-> tool_call.function.name,
     tool_args |-> DecodeArgs(tool_call.function.arguments),
     result |-> dispatch(tool_call.function.name,
                         DecodeArgs(tool_call.function.arguments), now).val]

\* faulty variant of ResetMessages: keeps the newest message instead of the first
ResetMessagesKeepsLast(msgs) == <<msgs[Len(msgs)]>>

\* self._messages = [self._messages[0]]
ResetMessages(msgs) == <<msgs[1]>>

\* faulty variant of Repair: the entry before the last is overwritten
RepairWrongIndex(msgs, reply) ==
    [msgs EXCEPT ![Len(msgs) - 1] = [role |-> "assistant", content |-> PyStr(reply)]]

\* faulty variant of Repair: the streamed reply is appended, the prefetched one stays
RepairAppends(msgs, reply) == Append(msgs, [role |-> "assistant", content |-> PyStr(reply)])

\* self._messages[-1] = {"role": "assistant", "content": full_reply}
Repair(msgs, reply) == [msgs EXCEPT ![Len(msgs)] = StreamedMessage(reply)]

\* the method is left (a return, a raise, the end of the generator): its locals are gone
Leave(kind, value) ==
    /\ pc' = "idle"
    /\ outcome' = [kind |-> kind, value |-> value]
    /\ round' = 0
    /\ tool_calls' = <<>>
    /\ idx' = 0
    /\ full_reply' = <<>>
    /\ chunks' = 0

TransportError == PyStr(<<"APIConnectionError">>)

\* the first statement of a turn and the entry into the loop
BeginTurn(m, user_message) ==
    /\ pc = "idle"
    /\ Len(messages) <= MaxHistory
    /\ messages' = Append(messages, UserMessage(user_message))
    /\ method' = m
    /\ pc' = IF HasRound(0) THEN "request" ELSE "exhausted"
    /\ before' = messages
    /\ requests' = <<>>
    /\ dispatched' = <<>>
    /\ yielded' = <<>>
    /\ outcome' = NoOutcome
    /\ UNCHANGED <<max_tool_rounds, test_call, locals>>

\* faulty variant of RequestRaises: the failed turn's messages are taken back
RequestRaisesRollsBack(m) ==
    /\ pc = "request"
    /\ method = m
    /\ requests' = Append(requests, Request("auto", FALSE, messages, "error"))
    /\ messages' = before
    /\ Leave("raised", TransportError)
    /\ UNCHANGED <<max_tool_rounds, test_call, method, before, dispatched, yielded>>

\* the request of an iteration fails: the error leaves the method
RequestRaises(m) ==
    /\ pc = "request"
    /\ method = m
    /\ requests' = Append(requests, Request("auto", FALSE, messages, "error"))
    /\ Leave("raised", TransportError)
    /\ UNCHANGED <<messages, max_tool_rounds, test_call, method, before, dispatched, yielded>>

\* faulty variant of DispatchStep: the inner loop is left after its first pass
DispatchStepBreaks(m) ==
    /\ pc = "dispatch"
    /\ method = m
    /\ \E now \in Clock :
          LET call == RunToolCall(tool_calls[idx + 1], now)
          IN  /\ messages' = Append(messages, ToolMessage(call))
              /\ dispatched' = Append(dispatched, call)
    /\ idx' = 0
    /\ tool_calls' = <<>>
    /\ round' = round + 1
    /\ pc' = IF HasRound(round + 1) THEN "request" ELSE "exhausted"
    /\ UNCHANGED <<max_tool_rounds, test_call, full_reply, chunks, method, before, requests,
                   yielded, outcome>>

\* one pass of the inner for loop: decode, dispatch, append the tool message
DispatchStep(m) ==
    /\ pc = "dispatch"
    /\ method = m
    /\ \E now \in Clock :
          LET call == RunToolCall(tool_calls[idx + 1], now)
              last == idx + 1 = Len(tool_calls)
          IN  /\ messages' = Append(messages, ToolMessage(call))
              /\ dispatched' = Append(dispatched, call)
              /\ idx' = IF last THEN 0 ELSE idx + 1
              /\ tool_calls' = IF last THEN <<>> ELSE tool_calls
              /\ round' = IF last THEN round + 1 ELSE round
              /\ pc' = IF ~last THEN "dispatch"
                       ELSE IF HasRound(round + 1) THEN "request" ELSE "exhausted"
    /\ UNCHANGED <<max_tool_rounds, test_call, full_reply, chunks, method, before, requests,
                   yielded, outcome>>

(***************************************************************************)
(* Agent.chat                                                              *)
(***************************************************************************)
Chat == \E user_message \in UserMessages : BeginTurn("chat", user_message)

\* the request of an iteration is answered
ChatReply ==
    /\ pc = "request"
    /\ method = "chat"
    /\ \E assistant_msg \in AssistantMsgs :
          /\ messages' = Append(messages, AssistantDump(assistant_msg))
          /\ requests' = Append(requests,
                Request("auto", FALSE, messages,
                        IF IsFinal(assistant_msg) THEN "final" ELSE "tool_calls"))
          /\ IF IsFinal(assistant_msg)
             THEN Leave("returned", FinalAnswer(assistant_msg))
             ELSE /\ pc' = "dispatch"
                  /\ tool_calls' = assistant_msg.tool_calls.v
                  /\ idx' = 0
                  /\ UNCHANGED <<outcome, round, full_reply, chunks>>
    /\ UNCHANGED <<max_tool_rounds, test_call, method, before, dispatched, yielded>>

ChatRaises == RequestRaises("chat")

ChatDispatch == DispatchStep("chat")

\* faulty variant of ChatFallback: the fallback text is also appended to the history
ChatFallbackAppends ==
    /\ pc = "exhausted"
    /\ method = "chat"
    /\ messages' = Append(messages, [role |-> "assistant", content |-> PyStr(Fallback)])
    /\ Leave("returned", PyStr(Fallback))
    /\ UNCHANGED <<max_tool_rounds, test_call, method, before, requests, dispatched, yielded>>

\* the loop is over: return the fallback text
ChatFallback ==
    /\ pc = "exhausted"
    /\ method = "chat"
    /\ Leave("returned", PyStr(Fallback))
    /\ UNCHANGED <<messages, max_tool_rounds, test_call, method, before, requests, dispatched,
                   yielded>>

(***************************************************************************)
(* Agent.chat_stream: a generator.  Its caller runs it to the next yield   *)
(* ("yielded", "fallback": suspended there) or to its end.                 *)
(***************************************************************************)
ChatStream == \E user_message \in UserMessages : BeginTurn("chat_stream", user_message)

StreamReply ==
    /\ pc = "request"
    /\ method = "chat_stream"
    /\ \E assistant_msg \in AssistantMsgs :
          /\ messages' = Append(messages, AssistantDump(assistant_msg))
          /\ requests' = Append(requests,
                Request("auto", FALSE, messages,
                        IF IsFinal(assistant_msg) THEN "final" ELSE "tool_calls"))
          /\ IF IsFinal(assistant_msg)
             THEN /\ pc' = "final"
                  /\ UNCHANGED <<tool_calls, idx>>
             ELSE /\ pc' = "dispatch"
                  /\ tool_calls' = assistant_msg.tool_calls.v
                  /\ idx' = 0
    /\ UNCHANGED <<max_tool_rounds, test_call, round, full_reply, chunks, method, before, dispatched,
                   yielded, outcome>>

StreamRaises == RequestRaises("chat_stream")

StreamDispatch == DispatchStep("chat_stream")

\* faulty variant of StreamOpen: the second request is sent the prefetched reply too
StreamOpenSendsReply ==
    /\ pc = "final"
    /\ requests' = Append(requests, Request("none", TRUE, messages, "stream"))
    /\ full_reply' = <<>>
    /\ chunks' = 0
    /\ pc' = "stream"
    /\ UNCHANGED <<messages, max_tool_rounds, test_call, round, tool_calls, idx, method, before,
                   dispatched, yielded, outcome>>

\* the second request, without the prefetched reply, is accepted: the stream opens
StreamOpen ==
    /\ pc = "final"
    /\ requests' = Append(requests,
          Request("none", TRUE, SubSeq(messages, 1, Len(messages) - 1), "stream"))
    /\ full_reply' = <<>>
    /\ chunks' = 0
    /\ pc' = "stream"
    /\ UNCHANGED <<messages, max_tool_rounds, test_call, round, tool_calls, idx, method, before,
                   dispatched, yielded, outcome>>

\* the second request fails
StreamOpenRaises ==
    /\ pc = "final"
    /\ requests' = Append(requests,
          Request("none", TRUE, SubSeq(messages, 1, Len(messages) - 1), "error"))
    /\ Leave("raised", TransportError)
    /\ UNCHANGED <<messages, max_tool_rounds, test_call, method, before, dispatched, yielded>>

\* the stream delivers a chunk: text is added to full_reply and yielded
StreamChunk ==
    /\ pc = "stream"
    /\ chunks < MaxChunks
    /\ \E content \in Deltas(chunks + 1) :
          /\ chunks' = chunks + 1
          /\ IF Truthy(content)
             THEN /\ full_reply' = full_reply \o content.v
                  /\ yielded' = Append(yielded, content.v)
                  /\ pc' = "yielded"
             ELSE UNCHANGED <<full_reply, yielded, pc>>
    /\ UNCHANGED <<messages, max_tool_rounds, test_call, round, tool_calls, idx, method, before,
                   requests, dispatched, outcome>>

\* the caller asks for the next item of a reply being streamed
StreamResume ==
    /\ pc = "yielded"
    /\ pc' = "stream"
    /\ UNCHANGED <<messages, max_tool_rounds, test_call, locals, method, before, requests,
                   dispatched, yielded, outcome>>

\* the stream fails part-way
StreamBreaks ==
    /\ pc = "stream"
    /\ Leave("raised", TransportError)
    /\ UNCHANGED <<messages, max_tool_rounds, test_call, method, before, requests, dispatched,
                   yielded>>

\* the stream ends: the history is updated with the streamed reply, the generator ends
StreamEnd ==
    /\ pc = "stream"
    /\ messages' = Repair(messages, full_reply)
    /\ Leave("done", PyNone)
    /\ UNCHANGED <<max_tool_rounds, test_call, method, before, requests, dispatched, yielded>>

\* the loop is over: yield the fallback text
StreamFallback ==
    /\ pc = "exhausted"
    /\ method = "chat_stream"
    /\ yielded' = Append(yielded, Fallback)
    /\ pc' = "fallback"
    /\ UNCHANGED <<messages, max_tool_rounds, test_call, locals, method, before, requests,
                   dispatched, outcome>>

\* the caller asks for the item after the fallback text: the generator ends
StreamFallbackResume ==
    /\ pc = "fallback"
    /\ Leave("done", PyNone)
    /\ UNCHANGED <<messages, max_tool_rounds, test_call, method, before, requests, dispatched,
                   yielded>>

\* faulty variant of StreamAbandon: the partial reply is written to the history,
\* as a "finally" around the chunk loop would do
StreamAbandonRepairs ==
    /\ pc \in {"yielded", "fallback"}
    /\ messages' = IF pc = "yielded" THEN Repair(messages, full_reply) ELSE messages
    /\ Leave("closed", PyNone)
    /\ UNCHANGED <<max_tool_rounds, test_call, method, before, requests, dispatched, yielded>>

\* the caller stops consuming: the generator, suspended at a yield, is closed there
\* (close(), or the caller's loop is left and the generator dropped); no statement
\* after the yield runs
StreamAbandon ==
    /\ pc \in {"yielded", "fallback"}
    /\ Leave("closed", PyNone)
    /\ UNCHANGED <<messages, max_tool_rounds, test_call, method, before, requests, dispatched,
                   yielded>>

(***************************************************************************)
(* Agent.reset, called between turns.                                      *)
(***************************************************************************)
Reset ==
    /\ pc = "idle"
    /\ messages' = ResetMessages(messages)
    /\ method' = "reset"
    /\ before' = messages
    /\ requests' = <<>>
    /\ dispatched' = <<>>
    /\ yielded' = <<>>
    /\ outcome' = [kind |-> "returned", value |-> PyNone]
    /\ UNCHANGED <<max_tool_rounds, test_call, pc, locals>>

\* turns and resets of one Agent, one after the other
Next ==
    \/ Chat
    \/ ChatReply
    \/ ChatRaises
    \/ ChatDispatch
    \/ ChatFallback
    \/ ChatStream
    \/ StreamReply
    \/ StreamRaises
    \/ StreamDispatch
    \/ StreamOpen
    \/ StreamOpenRaises
    \/ StreamChunk
    \/ StreamResume
    \/ StreamBreaks
    \/ StreamEnd
    \/ StreamFallback
    \/ StreamFallbackResume
    \/ StreamAbandon
    \/ Reset

Spec == Init /\ [][Next]_vars

(***************************************************************************)
(* The tools module on its own: one call of dispatch, calculator or        *)
(* reverse_text on arguments of the sets below, as the unit tests make     *)
(* them; reverse_text may then be applied to its own result.               *)
(***************************************************************************)
\* the largest number of keywords in an argument mapping
MaxKeywords == 2
\* the largest number of symbols of an expression drawn from ExprSymbols
MaxExprLen == 3
\* the largest number of characters of a text given to reverse_text
MaxTextLen == 3

\* the Agent, which these calls leave alone
agent == <<messages, max_tool_rounds, pc, locals, method, before, requests, dispatched,
           yielded, outcome>>

\* the names dispatch is called with: the registered ones and others
ToolNames == DOMAIN TOOL_REGISTRY \cup {"does_not_exist", "Calculator", ""}

\* values json.loads can produce
JsonValues ==
    <<PyStr(<<"a", "b">>), PyStr(<<>>), PyStr(<<"1", "/", "0">>), PyStr(<<"1", "0", "/", "4">>),
      PyInt(1), PyBool(TRUE), PyNone, PyList(<<PyInt(1), PyInt(2)>>), PyList(<<>>),
      PyDict([k \in {<<"a">>} |-> PyInt(1)])>>

Keywords == {<<"text">>, <<"expression">>, <<"wrong_param">>}

\* the argument mappings have at most MaxKeywords keywords
KeywordSets == {ks \in SUBSET Keywords : Cardinality(ks) <= MaxKeywords}

\* the mapping that gives each keyword of ks the value JsonValues[choice[k]]
ToolArgs(ks, choice) == PyDict([k \in ks |-> JsonValues[choice[k]]])

\* the registered functions that dispatch calls: fn(**tool_args) for a registered name
Invoked(tool_name) == IF tool_name \in DOMAIN TOOL_REGISTRY THEN {tool_name} ELSE {}

ExprSymbols == {"0", "1", "2", "+", "-", "/", "**", "(", ")", " ", "sqrt", "os"}

\* the sequences of at most n symbols of ExprSymbols
ShortTexts(n) == UNION {[1..k -> ExprSymbols] : k \in 0..n}

\* longer expressions
Expressions ==
    {<<"2", "+", "3", "*", "4">>,
     <<"(", "2", "+", "3", ")", "*", "4">>,
     <<"1", "0", "/", "4">>,
     <<"sqrt", "(", "1", "4", "4", ")">>,
     <<"sqrt", "(", "-", "1", ")">>,
     <<"fabs", "(", "-", "5", ")", "/", "2">>,
     <<"pi", "*", "2">>,
     <<"2", "**", "1", "0", "2", "4">>,
     <<"1", "%", "0">>,
     <<"1", "//", "0">>,
     <<"0", "**", "-", "1">>,
     <<"(", "-", "4", ")", "**", "(", "1", "/", "2", ")">>,
     <<"import", " ", "os">>,
     <<"malicious", "(", ")">>,
     <<"1", "<", "2">>,
     <<"1", "@", "2">>,
     <<"~", "2">>,
     <<"'a'">>,
     <<"sqrt", "(", "'a'", ")">>,
     <<"sqrt", "(", "os", ")">>,
     <<"sqrt", "(", "4", ",", "os", ")">>,
     <<"sqrt", "(", "4", ",", "x", "=", "os", ")">>,
     <<"sqrt", "(", "4", ",", "x", "=", "2", ")">>,
     <<"fabs", "(", "-", "1", ",", "x", "=", "'a'", ")">>,
     <<"fabs", "(", "2", ",", "x", "=", "1", "<", "2", ")">>,
     <<"fabs", "(", "2", ",", "x", "=", "~", "1", ")">>,
     <<"sqrt", "(", "x", "=", "4", ")">>,
     <<"\t", "1", "+", "1", "\n">>}

\* the texts reverse_text is called with
Texts == UNION {[1..k -> {"a", "b", " "}] : k \in 0..MaxTextLen}

\* the ast of arithmetic: integer literals, a sign, the seven binary operators
ArithOps == {"Add", "Sub", "Mult", "Div", "Pow", "Mod", "FloorDiv"}
Literal(n) == Constant(PyInt(n))
Leaves == {Literal(n) : n \in {0, 1, 2, 3, 4, 10}}
SmallLeaves == {Literal(n) : n \in {1, 2, 3, 10}}
Signed == Leaves \cup {UnaryOp(sg, l) : sg \in {"USub", "UAdd"}, l \in Leaves}

ArithTrees ==
    Signed
    \cup {BinOp(o, a, b) : o \in ArithOps, a \in Signed, b \in Signed}
    \cup {BinOp(o, BinOp(p, a, b), c) :
             o \in ArithOps, p \in ArithOps, a \in SmallLeaves, b \in SmallLeaves,
             c \in SmallLeaves}
    \cup {BinOp(o, a, BinOp(p, b, c)) :
             o \in ArithOps, p \in ArithOps, a \in SmallLeaves, b \in SmallLeaves,
             c \in SmallLeaves}
    \cup {UnaryOp("USub", BinOp(o, a, b)) : o \in ArithOps, a \in SmallLeaves, b \in SmallLeaves}
    \cup {BinOp("Pow", Literal(2), Literal(1024)), BinOp("Pow", Literal(2), Literal(1023)),
          BinOp("Pow", Literal(2), UnaryOp("USub", Literal(10))),
          BinOp("Div", Literal(1023), Literal(1024))}

\* the lexeme of an operator class
OpText(op) ==
    CASE op = "Add" -> "+" [] op = "Sub" -> "-" [] op = "Mult" -> "*" [] op = "Div" -> "/"
      [] op = "Pow" -> "**" [] op = "Mod" -> "%" [] op = "FloorDiv" -> "//"
      [] op = "USub" -> "-" [] op = "UAdd" -> "+"

\* how strongly the outermost operator of a tree binds: + - (1), * / % // (2),
\* sign (3), ** (4), a literal (5)
Level(t) ==
    CASE t.type = "Constant" -> 5
      [] t.type = "UnaryOp" -> 3
      [] t.type = "BinOp" /\ t.op = "Pow" -> 4
      [] t.type = "BinOp" /\ t.op \in {"Mult", "Div", "Mod", "FloorDiv"} -> 2
      [] OTHER -> 1

Parenthesised(s) == <<"(">> \o s \o <<")">>

RECURSIVE Unparse(_)
\* the text of an arithmetic tree, with parentheses only where the usual precedence
\* would read the text as a different tree
Unparse(t) ==
    LET \* the text of the operand u, in parentheses when it binds less than lowest
        operand(u, lowest) ==
            IF Level(u) < lowest THEN Parenthesised(Unparse(u)) ELSE Unparse(u)
    IN  CASE t.type = "Constant" -> NatStr(t.value.v)
          [] t.type = "UnaryOp" -> <<OpText(t.op)>> \o operand(t.operand, 3)
          [] t.type = "BinOp" /\ t.op = "Pow" ->
                operand(t.left, 5) \o <<"**">> \o operand(t.right, 3)
          [] t.type = "BinOp" /\ t.op # "Pow" ->
                operand(t.left, Level(t)) \o <<OpText(t.op)>> \o operand(t.right, Level(t) + 1)

ToolInit ==
    /\ messages = <<SystemMessage(DEFAULT_SYSTEM_PROMPT)>>
    /\ max_tool_rounds = MaxRounds
    /\ pc = "idle"
    /\ round = 0
    /\ tool_calls = <<>>
    /\ idx = 0
    /\ full_reply = <<>>
    /\ chunks = 0
    /\ method = "__init__"
    /\ before = <<>>
    /\ requests = <<>>
    /\ dispatched = <<>>
    /\ yielded = <<>>
    /\ outcome = NoOutcome
    /\ test_call = NoCall

\* dispatch(tool_name, tool_args)
CallDispatch ==
    /\ test_call = NoCall
    /\ \E tool_name \in ToolNames, ks \in KeywordSets, now \in Clock :
          \E choice \in [ks -> 1..Len(JsonValues)] :
              test_call' = [fn |-> "dispatch",
                            args |-> <<tool_name, ToolArgs(ks, choice)>>,
                            out |-> dispatch(tool_name, ToolArgs(ks, choice), now),
                            invoked |-> Invoked(tool_name)]
    /\ UNCHANGED agent

\* calculator(expression)
CallCalculator ==
    /\ test_call = NoCall
    /\ \E expression \in ShortTexts(MaxExprLen) \cup Expressions :
          test_call' = [fn |-> "calculator", args |-> <<PyStr(expression)>>,
                        out |-> calculator(PyStr(expression))]
    /\ UNCHANGED agent

\* calculator on the text of an arithmetic tree
CallArithmetic ==
    /\ test_call = NoCall
    /\ \E t \in ArithTrees :
          test_call' = [fn |-> "calculator", args |-> <<PyStr(Unparse(t))>>,
                        out |-> calculator(PyStr(Unparse(t))), tree |-> t]
    /\ UNCHANGED agent

\* reverse_text(text)
CallReverseText ==
    /\ test_call = NoCall
    /\ \E text \in Texts :
          test_call' = [fn |-> "reverse_text", args |-> <<PyStr(text)>>,
                        out |-> reverse_text(PyStr(text)), first |-> <<>>]
    /\ UNCHANGED agent

\* reverse_text(reverse_text(text)): the second application
CallReverseTextAgain ==
    /\ test_call.fn = "reverse_text"
    /\ test_call.first = <<>>
    /\ ~test_call.out.exc
    /\ test_call' = [fn |-> "reverse_text", args |-> <<test_call.out.val>>,
                     out |-> reverse_text(test_call.out.val), first |-> test_call.args]
    /\ UNCHANGED agent

ToolNext ==
    \/ CallDispatch
    \/ CallCalculator
    \/ CallArithmetic
    \/ CallReverseText
    \/ CallReverseTextAgain

ToolSpec == ToolInit /\ [][ToolNext]_vars

(***************************************************************************)
(* Reading the history and the logs of a call.                             *)
(***************************************************************************)
IsPrefix(s, t) == Len(s) <= Len(t) /\ SubSeq(t, 1, Len(s)) = s
Last(s) == s[Len(s)]

\* an assistant message that carries tool-call requests
HasToolCalls(m) ==
    m.role = "assistant" /\ "tool_calls" \in DOMAIN m /\ Truthy(m.tool_calls)

\* the call in progress or last finished is a turn
IsTurn == method \in {"chat", "chat_stream"}
TurnOver == IsTurn /\ pc = "idle"

\* every request of the call was answered with tool-call requests
AllToolCalls == \A i \in 1..Len(requests) : requests[i].answer = "tool_calls"

\* the turn ended because the rounds were used up
ExhaustedTurn ==
    /\ TurnOver
    /\ Len(requests) = max_tool_rounds
    /\ Last(requests).answer = "tool_calls"

\* the caller of the turn got the fallback text and nothing else
GotFallback ==
    IF method = "chat"
    THEN outcome = [kind |-> "returned", value |-> PyStr(Fallback)]
    ELSE outcome.kind \in {"done", "closed"} /\ yielded = <<Fallback>>

\* a streamed turn consumed to the end of the stream
StreamedTurn ==
    /\ method = "chat_stream"
    /\ pc = "idle"
    /\ outcome.kind = "done"
    /\ Last(requests).answer = "stream"

\* the turn was aborted by an error of a model request
RaisedTurn == TurnOver /\ outcome.kind = "raised"

RECURSIVE TurnCalls(_)
\* the tool-call requests of the assistant messages of msgs, in order
TurnCalls(msgs) ==
    IF msgs = <<>> THEN <<>>
    ELSE (IF HasToolCalls(Head(msgs)) THEN Head(msgs).tool_calls.v ELSE <<>>)
         \o TurnCalls(Tail(msgs))

\* what the turn has added to the history it found
Added == SubSeq(messages, Len(before) + 1, Len(messages))

(***************************************************************************)
(* The claims.                                                             *)
(***************************************************************************)

\* C1: in every state reached by turns and resets made one after the other (turns that
\* end with an answer, with the rounds used up or with a transport error), the history
\* has the system message at index 0 and no other system message; right after reset
\* the history is exactly that one initial system message.
OneSystemMessageFirst ==
    /\ Len(messages) >= 1
    /\ messages[1] = SystemMessage(DEFAULT_SYSTEM_PROMPT)
    /\ \A i \in 2..Len(messages) : messages[i].role # "system"
    /\ (method = "reset" /\ pc = "idle") =>
          messages = <<SystemMessage(DEFAULT_SYSTEM_PROMPT)>>

\* a reset of a history that held tool messages of an earlier turn
ResetAfterToolRounds ==
    /\ method = "reset"
    /\ pc = "idle"
    /\ \E i \in 1..Len(before) : before[i].role = "tool"

\* C2: a turn whose every request is answered with tool-call requests makes exactly
\* max_tool_rounds requests, never more, and hands its caller the fallback text; this
\* holds of every turn, whatever the turns and resets before it; and such a turn, while
\* in progress, can always take a step.
ExactlyMaxRounds ==
    /\ (IsTurn /\ AllToolCalls) => Len(requests) <= max_tool_rounds
    /\ (TurnOver /\ AllToolCalls) => (Len(requests) = max_tool_rounds /\ GotFallback)
    /\ (IsTurn /\ AllToolCalls /\ pc # "idle") => ENABLED Next

\* a streamed turn that used up two rounds, after an earlier turn that left messages
ExhaustedAfterEarlierTurn ==
    /\ TurnOver
    /\ method = "chat_stream"
    /\ AllToolCalls
    /\ Len(requests) = 2
    /\ Len(before) > 1

\* C3: every tool message carries the id of one of the tool-call requests of the
\* nearest assistant message before it, and only tool messages lie between the two.
ToolMessagesFollowTheirRequest ==
    \A i \in 1..Len(messages) :
        messages[i].role = "tool" =>
            \E j \in 1..(i - 1) :
                /\ HasToolCalls(messages[j])
                /\ \A k \in (j + 1)..(i - 1) : messages[k].role = "tool"
                /\ \E c \in 1..Len(messages[j].tool_calls.v) :
                      messages[j].tool_calls.v[c].id = messages[i].tool_call_id

\* a tool message of an earlier turn with the next turn's user message after it, and
\* the tool message of the second request of an answer
ToolMessagesOfTwoTurns ==
    /\ \E i \in 1..(Len(messages) - 1) :
          messages[i].role = "tool" /\ messages[i + 1].role = "user"
    /\ \E i \in 1..Len(messages) :
          messages[i].role = "tool" /\ messages[i].tool_call_id = CallId(2)

\* C4: after a streamed turn consumed to the end of the stream, the last message is the
\* only assistant message after the last user or tool message, and its content is the
\* concatenation, in order, of the text increments yielded to the caller.
OneStreamedAnswer ==
    StreamedTurn =>
        /\ Last(messages) = [role |-> "assistant", content |-> PyStr(Concat(yielded))]
        /\ messages[Len(messages) - 1].role \in {"user", "tool"}
        /\ Len(Added) = 1 + Len(dispatched) + (Len(requests) - 1)

\* a streamed answer of two increments
TwoIncrementsStreamed == StreamedTurn /\ Len(yielded) = 2

\* C5 as stated: after a turn that a transport error aborted, the history is equal to
\* the history before the turn.
HistoryUnchangedOnError == RaisedTurn => messages = before

\* C5, amended: a transport error of a model request reaches the caller of the turn and
\* takes nothing back: the history before the turn is a proper prefix of the history
\* after it, which keeps the turn's user message and the assistant and tool messages of
\* the rounds completed before the error; the failed request itself adds nothing.
ErrorKeepsTheTurnsMessages ==
    /\ (IsTurn /\ requests # <<>> /\ Last(requests).answer = "error") => RaisedTurn
    /\ RaisedTurn =>
          /\ IsPrefix(before, messages)
          /\ Len(messages) > Len(before)
          /\ messages[Len(before) + 1].role = "user"
          /\ Len(Added) = Len(requests) + Len(dispatched)
          /\ Last(requests).tool_choice = "auto" => messages = Last(requests).messages

\* a transport error in the second round: the first round's messages are kept
ErrorInSecondRound ==
    /\ RaisedTurn
    /\ Len(requests) = 2
    /\ Last(requests).tool_choice = "auto"
    /\ Len(dispatched) >= 1

\* a step of Agent.reset: the history is cut down to its first message
ResetStep ==
    /\ pc = "idle"
    /\ pc' = "idle"
    /\ method' = "reset"
    /\ messages' = <<messages[1]>>

\* the step that ends a streamed reply: the last entry is replaced by the streamed
\* assistant message, the entries before it and the length stay
RepairStep ==
    /\ pc = "stream"
    /\ pc' = "idle"
    /\ Len(messages') = Len(messages)
    /\ SubSeq(messages', 1, Len(messages) - 1) = SubSeq(messages, 1, Len(messages) - 1)
    /\ Last(messages') = [role |-> "assistant", content |-> PyStr(full_reply)]

\* C6 as stated: across every step other than reset the previous history is a prefix of
\* the new history.
AppendOnlyButReset == [][ResetStep \/ IsPrefix(messages, messages')]_vars

\* C6, amended: across every step of chat and chat_stream the previous history is a
\* prefix of the new history, except the step that ends a streamed reply, which
\* replaces the last entry by the streamed assistant message and leaves the other
\* entries and the length as they are; reset cuts the history down to its first
\* message, the initial system message.
AppendOnlyButResetAndRepair ==
    [][ResetStep \/ RepairStep \/ IsPrefix(messages, messages')]_vars

\* a history whose last entry was replaced by a streamed reply that differs from it
RepairedHistory ==
    /\ StreamedTurn
    /\ Last(messages).content = PyStr(<<"a", "b">>)

\* C7: the fallback text is never a message of the history; a turn that ends with the
\* rounds used up hands the fallback text to its caller (returned by chat, yielded by
\* chat_stream) and leaves a history that ends with the tool messages of the last round.
FallbackNotInHistory ==
    /\ \A i \in 1..Len(messages) : messages[i].content # PyStr(Fallback)
    /\ ExhaustedTurn =>
          /\ GotFallback
          /\ \E j \in 1..Len(messages) :
                /\ HasToolCalls(messages[j])
                /\ Len(messages) = j + Len(messages[j].tool_calls.v)
                /\ \A k \in (j + 1)..Len(messages) : messages[k].role = "tool"

\* a chat turn that used up two rounds
ChatExhausted == ExhaustedTurn /\ method = "chat" /\ Len(requests) = 2

\* the tool messages of msgs, in order
ToolMessages(msgs) == SelectSeq(msgs, LAMBDA m : m.role = "tool")

\* the tool messages that answer the request list of messages[j] so far: all of them,
\* or as many as the inner loop has passed when it is working on that list
Answered(j) ==
    IF pc = "dispatch" /\ \A k \in (j + 1)..Len(messages) : ~HasToolCalls(messages[k])
    THEN idx
    ELSE Len(messages[j].tool_calls.v)

\* C8: an assistant message with n tool-call requests is followed directly by the tool
\* messages of its requests, in the order of the requests, the i-th with the id of the
\* i-th request and the result of dispatching it; there are exactly n of them once the
\* inner loop is through, the dispatcher has then run once per request in that order,
\* and every model request was sent with all earlier tool-call requests answered.
ToolCallsDispatchedInOrder ==
    /\ \A j \in 1..Len(messages) :
          HasToolCalls(messages[j]) =>
              LET n == Answered(j)
              IN  /\ Len(messages) >= j + n
                  /\ \A i \in 1..n :
                        LET tool_call == messages[j].tool_calls.v[i]
                        IN  /\ messages[j + i].role = "tool"
                            /\ messages[j + i].tool_call_id = tool_call.id
                            /\ \E now \in Clock :
                                  messages[j + i].content =
                                      dispatch(tool_call.function.name,
                                               DecodeArgs(tool_call.function.arguments),
                                               now).val
                  /\ Len(messages) > j + n => messages[j + n + 1].role # "tool"
    /\ IsTurn =>
          LET calls == TurnCalls(Added)
              tools == ToolMessages(Added)
          IN  /\ Len(dispatched) = Len(tools)
              /\ Len(dispatched) <= Len(calls)
              /\ pc # "dispatch" => Len(dispatched) = Len(calls)
              /\ \A k \in 1..Len(dispatched) :
                    /\ dispatched[k].id = calls[k].id
                    /\ dispatched[k].tool_name = calls[k].function.name
                    /\ tools[k].tool_call_id = dispatched[k].id
                    /\ tools[k].content = dispatched[k].result
    /\ \A r \in 1..Len(requests) :
          Len(ToolMessages(requests[r].messages)) = Len(TurnCalls(requests[r].messages))

\* a second model request made after a round with two tool-call requests
RequestAfterTwoCalls ==
    /\ IsTurn
    /\ Len(requests) = 2
    /\ Len(dispatched) = 2
    /\ Len(TurnCalls(requests[2].messages)) - Len(TurnCalls(before)) = 2
    /\ requests[2].messages[Len(requests[2].messages)].tool_call_id = CallId(2)

\* C9: in chat, the first answer without tool-call requests (none or an empty list)
\* ends the turn: its assistant message is the last entry of the history, no request
\* and no dispatch follows it, and chat returns the text of the message, or the empty
\* string when the text is None.
FirstFinalAnswerEndsChat ==
    (method = "chat" /\ \E r \in 1..Len(requests) : requests[r].answer = "final") =>
        /\ pc = "idle"
        /\ Last(requests).answer = "final"
        /\ \A r \in 1..(Len(requests) - 1) : requests[r].answer = "tool_calls"
        /\ messages = Append(Last(requests).messages, Last(messages))
        /\ Last(messages).role = "assistant"
        /\ ~HasToolCalls(Last(messages))
        /\ Len(dispatched) = Len(ToolMessages(Added))
        /\ outcome.kind = "returned"
        /\ outcome.value = IF Last(messages).content = PyNone
                           THEN PyStr(<<>>)
                           ELSE Last(messages).content

\* chat returns the empty string for an answer with no text and an empty request list,
\* given after a round of tool calls
EmptyAnswerAfterToolRound ==
    /\ method = "chat"
    /\ pc = "idle"
    /\ Len(requests) = 2
    /\ requests[2].answer = "final"
    /\ Last(messages).content = PyNone
    /\ Last(messages).tool_calls = PyList(<<>>)
    /\ outcome = [kind |-> "returned", value |-> PyStr(<<>>)]

\* C10: a tool-call request whose argument payload does not decode does not fail the
\* turn: the dispatcher runs with the request's tool name and an empty mapping, the
\* string it returns is appended as a tool message with the request's id, and the loop
\* goes on to the remaining requests and rounds; only a failed model request or stream
\* raises.
MalformedPayloadDegrades ==
    IsTurn =>
        LET calls == TurnCalls(Added)
            tools == ToolMessages(Added)
        IN  /\ \A k \in 1..Len(dispatched) :
                  JsonLoads(calls[k].function.arguments).exc =>
                      /\ dispatched[k].tool_name = calls[k].function.name
                      /\ dispatched[k].tool_args = PyDict(<<>>)
                      /\ \E now \in Clock :
                            dispatched[k].result =
                                dispatch(calls[k].function.name, PyDict(<<>>), now).val
                      /\ dispatched[k].result.t = "str"
                      /\ tools[k] = [role |-> "tool", tool_call_id |-> calls[k].id,
                                     content |-> dispatched[k].result]
            /\ pc # "dispatch" => Len(dispatched) = Len(calls)
            /\ outcome.kind = "raised" =>
                  requests # <<>> /\ Last(requests).answer \in {"error", "stream"}

\* a payload that does not decode was dispatched, then the next request of the same
\* answer, then the next round was entered
WentOnAfterMalformedPayload ==
    /\ IsTurn
    /\ pc = "request"
    /\ Len(dispatched) = 2
    /\ JsonLoads(TurnCalls(Added)[1].function.arguments).exc
    /\ dispatched[1].tool_args = PyDict(<<>>)
    /\ dispatched[2].tool_args # PyDict(<<>>)

(***************************************************************************)
(* The tools module: the dispatcher.                                       *)
(***************************************************************************)
\* C11: dispatch on a name without an entry in the registry calls no tool function,
\* does not raise and returns exactly "Error: unknown tool '<name>'", whatever the
\* argument mapping.
UnknownToolIsReported ==
    (test_call.fn = "dispatch" /\ test_call.args[1] \notin DOMAIN TOOL_REGISTRY) =>
        /\ test_call.invoked = {}
        /\ ~test_call.out.exc
        /\ test_call.out.val = PyStr(<<"Error: unknown tool '", test_call.args[1], "'">>)

\* dispatch was called with a name that is not registered and a mapping with a keyword
UnknownToolCalled ==
    /\ test_call.fn = "dispatch"
    /\ test_call.args[1] = "does_not_exist"
    /\ DOMAIN test_call.args[2].v = {<<"text">>}
    /\ test_call.out.val.v = <<"Error: unknown tool '", "does_not_exist", "'">>

\* C12: dispatch on a registered name does not raise; when the mapping misses a
\* parameter of the tool or has a keyword that is none of its parameters, it returns
\* a string that starts with "Error calling '<name>': "; and every exception of the
\* call of the tool function is returned as that string followed by its message.
BadArgumentsAreReported ==
    (test_call.fn = "dispatch" /\ test_call.args[1] \in DOMAIN TOOL_REGISTRY) =>
        LET tool_name == test_call.args[1]
            tool_args == test_call.args[2]
            prefix == <<"Error calling '", tool_name, "': ">>
        IN  /\ ~test_call.out.exc
            /\ DOMAIN tool_args.v # TOOL_REGISTRY[tool_name] =>
                  /\ test_call.out.val.t = "str"
                  /\ IsPrefix(prefix, test_call.out.val.v)
            /\ \A now \in Clock :
                  CallTool(tool_name, tool_args, now).exc =>
                      test_call.out.val =
                          PyStr(prefix \o CallTool(tool_name, tool_args, now).val.v)

\* count_words was dispatched with a value that has no split(): the AttributeError of
\* the tool came back as a string
ToolExceptionReported ==
    /\ test_call.fn = "dispatch"
    /\ test_call.args[1] = "count_words"
    /\ DOMAIN test_call.args[2].v = {<<"text">>}
    /\ test_call.args[2].v[<<"text">>] = PyInt(1)
    /\ test_call.out.val.v = <<"Error calling '", "count_words", "': ",
                               "'", "int", "' object has no attribute 'split'">>

\* C13: for a mapping whose values are JSON-decodable values, dispatch returns a
\* string.
DispatchReturnsString ==
    test_call.fn = "dispatch" => ~test_call.out.exc /\ test_call.out.val.t = "str"

(***************************************************************************)
(* The tools module: the calculator.                                       *)
(***************************************************************************)
\* a text that calculator returns for a failure
IsErrorText(v) == v # <<>> /\ Head(v) = "Error: "

\* C14: calculator does not raise, whatever the expression string: it returns a string,
\* and when the text does not parse (the empty and the blank text included) or the
\* evaluation raises (unknown name, unsupported operator or node, division by zero,
\* domain or range error, type error) the string is "Error: " and the message.
CalculatorNeverRaises ==
    test_call.fn = "calculator" =>
        LET source == Strip(test_call.args[1].v)
            tree == AstParse(source)
            result == SafeEval(tree.val)
        IN  /\ ~test_call.out.exc
            /\ test_call.out.val.t = "str"
            /\ source = <<>> => tree.exc
            /\ tree.exc => test_call.out.val.v = <<"Error: ">> \o tree.val.v
            /\ (~tree.exc /\ result.exc /\ result # NotFollowed) =>
                  /\ result.kind \in {"ValueError", "ZeroDivisionError", "TypeError",
                                      "OverflowError"}
                  /\ test_call.out.val.v = <<"Error: ">> \o result.val.v
                  /\ IsErrorText(test_call.out.val.v)

\* calculator was called on 1/0 and returned the message of the ZeroDivisionError
DivisionByZeroReported ==
    /\ test_call.fn = "calculator"
    /\ test_call.args[1].v = <<"1", "/", "0">>
    /\ test_call.out = Return(PyStr(<<"Error: ", "float division by zero">>))

RECURSIVE HasForbidden(_)
\* the tree has, anywhere in it, a construct that is not on the whitelist: a name that
\* is not a name of math, a string literal, a comparison, an operator without an entry
\* in _SAFE_OPERATORS
HasForbidden(node) ==
    CASE node.type = "Expression" -> HasForbidden(node.body)
      [] node.type = "Constant" -> node.value.t = "str"
      [] node.type = "Name" -> node.id \notin SAFE_NAMES
      [] node.type = "BinOp" ->
            \/ node.op \notin SAFE_OPERATORS
            \/ HasForbidden(node.left)
            \/ HasForbidden(node.right)
      [] node.type = "UnaryOp" ->
            node.op \notin SAFE_OPERATORS \/ HasForbidden(node.operand)
      [] node.type = "Call" ->
            \/ HasForbidden(node.func)
            \/ \E i \in 1..Len(node.args) : HasForbidden(node.args[i])
            \/ \E i \in 1..Len(node.keywords) : HasForbidden(node.keywords[i].value)
      [] node.type = "Tuple" -> \E i \in 1..Len(node.elts) : HasForbidden(node.elts[i])
      [] OTHER -> TRUE

\* C15: when the parsed tree has a construct outside the whitelist anywhere in it, the
\* arguments and the keyword arguments of calls included, calculator returns an
\* "Error" text and no computed value.
ForbiddenConstructsRejected ==
    test_call.fn = "calculator" =>
        LET tree == AstParse(Strip(test_call.args[1].v))
        IN  (~tree.exc /\ HasForbidden(tree.val) /\ test_call.out.val # NotFollowed.val) =>
                IsErrorText(test_call.out.val.v)

\* The standard arithmetic result of an arithmetic tree: the number n/d, or no number
\* (a division by zero, a negative power of zero, a fractional power of a negative
\* number), or a number beyond those the model follows as doubles.
Undefined == [k |-> "undefined"]
Beyond == [k |-> "beyond"]

\* the number n/d (d # 0)
Exactly(n, d) ==
    LET g == Gcd(Abs(n), Abs(d))
        num == (IF d < 0 THEN -1 ELSE 1) * (n \div g)
        den == Abs(d) \div g
    IN  IF Abs(num) < FollowedNum /\ den <= FollowedDen /\ IsPow2(den)
        THEN [k |-> "num", n |-> num, d |-> den]
        ELSE Beyond

RECURSIVE Standard(_)
Standard(t) ==
    CASE t.type = "Constant" -> Exactly(t.value.v, 1)
      [] t.type = "UnaryOp" ->
            LET a == Standard(t.operand)
            IN  IF a.k # "num" THEN a
                ELSE IF t.op = "USub" THEN Exactly(-a.n, a.d)
                ELSE a
      [] t.type = "BinOp" ->
            LET a == Standard(t.left)
                b == Standard(t.right)
            IN  IF a.k = "undefined" \/ b.k = "undefined" THEN Undefined
                ELSE IF t.op \in {"Div", "Mod", "FloorDiv"} /\ b.k = "num" /\ b.n = 0
                THEN Undefined
                ELSE IF a.k # "num" \/ b.k # "num" THEN Beyond
                ELSE CASE t.op = "Add" -> Exactly(a.n * b.d + b.n * a.d, a.d * b.d)
                       [] t.op = "Sub" -> Exactly(a.n * b.d - b.n * a.d, a.d * b.d)
                       [] t.op = "Mult" -> Exactly(a.n * b.n, a.d * b.d)
                       [] t.op = "Div" -> Exactly(a.n * b.d, a.d * b.n)
                       [] t.op = "FloorDiv" ->
                            \* the largest integer q with q * b <= a (b > 0), q * b >= a (b < 0)
                            Exactly(FloorDivide(a.n * b.d, a.d * b.n), 1)
                       [] t.op = "Mod" ->
                            \* a - (a // b) * b
                            Exactly(a.n * b.d - FloorDivide(a.n * b.d, a.d * b.n) * b.n * a.d,
                                    a.d * b.d)
                       [] t.op = "Pow" ->
                            IF b.d # 1 THEN (IF a.n < 0 THEN Undefined ELSE Beyond)
                            ELSE IF a.n = 0 /\ b.n < 0 THEN Undefined
                            ELSE LET e == Abs(b.n)
                                     p == IntPow(Abs(a.n), e)
                                     q == IntPow(a.d, e)
                                     sg == IF a.n < 0 /\ e % 2 = 1 THEN -1 ELSE 1
                                 IN  IF p >= FollowedNum \/ q >= FollowedNum THEN Beyond
                                     ELSE IF b.n >= 0 THEN Exactly(sg * p, q)
                                     ELSE Exactly(sg * q, p)

RECURSIVE Decimals(_, _)
\* the decimal digits of r/d after the point (0 <= r < d, d a power of two)
Decimals(r, d) ==
    IF r = 0 THEN <<>> ELSE <<Digit((10 * r) \div d)>> \o Decimals((10 * r) % d, d)

\* a whole number as its integer digits, any other number in decimal notation
Rendering(x) ==
    IF x.d = 1 THEN IntStr(x.n)
    ELSE (IF x.n < 0 THEN <<"-">> ELSE <<>>) \o NatStr(Abs(x.n) \div x.d) \o <<".">>
         \o Decimals(Abs(x.n) % x.d, x.d)

HasPoint(v) == \E i \in 1..Len(v) : v[i] = "."

\* C16 (as stated): for an arithmetic expression whose standard result is defined,
\* calculator returns the rendering of that result, whole numbers without a decimal
\* point.  (Results beyond the numbers followed are only required not to be errors.)
ArithmeticIsStandard ==
    (test_call.fn = "calculator" /\ "tree" \in DOMAIN test_call) =>
        LET x == Standard(test_call.tree)
        IN  /\ x.k # "undefined" => ~IsErrorText(test_call.out.val.v)
            /\ x.k = "num" => test_call.out = Return(PyStr(Rendering(x)))

\* C16 (amended): when every literal, every intermediate result and the result of an
\* arithmetic expression is a number a double holds exactly (one the model follows),
\* calculator returns the rendering of the standard result: the integer digits,
\* without a decimal point, of a whole number, and the decimal notation, with a
\* decimal point, of any other number.
ArithmeticOnDoubles ==
    (test_call.fn = "calculator" /\ "tree" \in DOMAIN test_call) =>
        LET x == Standard(test_call.tree)
        IN  x.k = "num" =>
                /\ test_call.out = Return(PyStr(Rendering(x)))
                /\ HasPoint(test_call.out.val.v) <=> x.d # 1

\* calculator was called on 10/4 and returned 2.5
QuotientRendered ==
    /\ test_call.fn = "calculator"
    /\ "tree" \in DOMAIN test_call
    /\ test_call.tree = BinOp("Div", Literal(10), Literal(4))
    /\ test_call.args[1].v = <<"1", "0", "/", "4">>
    /\ test_call.out.val.v = <<"2", ".", "5">>

(***************************************************************************)
(* The tools module: reverse_text.                                         *)
(***************************************************************************)
IsPalindrome(s) == \A i \in 1..Len(s) : s[i] = s[Len(s) + 1 - i]

\* C17: on strings reverse_text returns a string, and applied to its own result it
\* returns the string it started from; the empty string is returned as it is, and so
\* is every palindrome.
ReverseTextIsInvolution ==
    test_call.fn = "reverse_text" =>
        /\ ~test_call.out.exc
        /\ test_call.out.val.t = "str"
        /\ test_call.first # <<>> => test_call.out.val = test_call.first[1]
        /\ test_call.args[1].v = <<>> => test_call.out.val.v = <<>>
        /\ IsPalindrome(test_call.args[1].v) => test_call.out.val = test_call.args[1]

\* reverse_text was applied to "ab " and then to the result " ba"
ReversedTwice ==
    /\ test_call.fn = "reverse_text"
    /\ test_call.first = <<PyStr(<<"a", "b", " ">>)>>
    /\ test_call.args[1].v = <<" ", "b", "a">>
    /\ test_call.out.val.v = <<"a", "b", " ">>

\* the model requests of the turn that let the model call tools, and the others
AutoRequests == SelectSeq(requests, LAMBDA r : r.tool_choice = "auto")
OtherRequests == SelectSeq(requests, LAMBDA r : r.tool_choice # "auto")

\* where the assistant messages of the turn stand in the history
AssistantAt ==
    SelectSeq([j \in 1..Len(messages) |-> j],
              LAMBDA j : j > Len(before) /\ messages[j].role = "assistant")

\* the turn has got an answer without tool-call requests
ReachedDone == \E r \in 1..Len(requests) : requests[r].answer = "final"

\* the streamed reply has replaced the prefetched one
Repaired == method = "chat_stream" /\ pc = "idle" /\ outcome.kind = "done" /\ ReachedDone

\* C18: whichever of chat and chat_stream runs the turn, the requests with tool_choice
\* auto, the dispatcher invocations and the history are the same function of the history
\* found, the user message and the answers: the k-th such request is sent the history up
\* to the k-th assistant message of the turn, the dispatcher runs on the tool-call
\* requests of those messages in order, and the history is the one found, the user
\* message, and the answers each followed by its tool messages; only the last assistant
\* entry differs, after a stream consumed to its end.  chat makes no other request;
\* chat_stream makes exactly one, the last, streaming, with tool_choice none and the
\* history without the prefetched reply, when and only when an answer without tool-call
\* requests has been received.
StreamingFollowsChat ==
    IsTurn =>
        LET at == AssistantAt
            failed == requests # <<>> /\ Last(AutoRequests).answer = "error"
            calls == TurnCalls(Added)
        IN  /\ Added[1].role = "user"
            /\ Len(Added) = 1 + Len(at) + Len(dispatched)
            /\ Len(AutoRequests) = Len(at) + (IF failed THEN 1 ELSE 0)
            /\ \A k \in 1..Len(at) :
                  /\ AutoRequests[k] =
                        Request("auto", FALSE, SubSeq(messages, 1, at[k] - 1),
                                IF HasToolCalls(messages[at[k]]) THEN "tool_calls"
                                                                 ELSE "final")
                  /\ (k < Len(at) \/ ~Repaired) =>
                        \E assistant_msg \in AssistantMsgs :
                            messages[at[k]] = AssistantDump(assistant_msg)
            /\ failed => Last(AutoRequests) = Request("auto", FALSE, messages, "error")
            /\ Len(dispatched) <= Len(calls)
            /\ pc # "dispatch" => Len(dispatched) = Len(calls)
            /\ \A k \in 1..Len(dispatched) :
                  /\ dispatched[k].id = calls[k].id
                  /\ dispatched[k].tool_name = calls[k].function.name
                  /\ dispatched[k].tool_args = DecodeArgs(calls[k].function.arguments)
            /\ Repaired => Last(messages) = StreamedMessage(Concat(yielded))
            /\ method = "chat" => OtherRequests = <<>>
            /\ method = "chat_stream" =>
                  /\ Len(OtherRequests) = (IF ReachedDone /\ pc # "final" THEN 1 ELSE 0)
                  /\ OtherRequests # <<>> =>
                        /\ Last(requests) = OtherRequests[1]
                        /\ OtherRequests[1].tool_choice = "none"
                        /\ OtherRequests[1].stream
                        /\ OtherRequests[1].messages =
                              SubSeq(messages, 1, Len(messages) - 1)

\* a streamed turn with a tool round before its answer, consumed to the end
StreamedAfterToolRound == StreamedTurn /\ Len(dispatched) >= 1 /\ Len(yielded) >= 1

\* chat_stream stands in the branch of the final answer, the prefetched reply appended
InFinalBranch == method = "chat_stream" /\ pc \in {"final", "stream", "yielded"}

\* C19: from the moment the prefetched reply is in the history, every step of
\* chat_stream other than the regular end of the stream (the second request accepted or
\* failing, a chunk, a resumption, the stream failing part-way, the caller closing the
\* generator) leaves the history as it is, and its last entry is the prefetched
\* assistant message (the dump of an answer without tool-call requests), not the text
\* streamed so far.
PrefetchedReplyKept ==
    [][(InFinalBranch /\ outcome'.kind # "done") =>
          /\ messages' = messages
          /\ messages' = Append(Last(AutoRequests).messages, Last(messages'))
          /\ \E assistant_msg \in AssistantMsgs :
                /\ IsFinal(assistant_msg)
                /\ Last(messages') = AssistantDump(assistant_msg)]_vars

\* the caller has stopped consuming a reply after its first increment
AbandonedAfterIncrement ==
    /\ method = "chat_stream"
    /\ pc = "idle"
    /\ outcome.kind = "closed"
    /\ ReachedDone
    /\ Len(yielded) = 1
    /\ Last(messages).content # PyStr(Concat(yielded))

(***************************************************************************)
(* Agent.reset called while a chat_stream generator is suspended at a      *)
(* yield.  reset binds self._messages to a new list; the generator reaches *)
(* the history through self, so once resumed it works on the new list.     *)
(* method, before, requests, dispatched and yielded go on describing the   *)
(* call of the generator.                                                  *)
(***************************************************************************)
ResetSuspended ==
    /\ pc \in {"yielded", "fallback"}
    /\ messages' = ResetMessages(messages)
    /\ UNCHANGED <<max_tool_rounds, test_call, pc, locals, method, before, requests,
                   dispatched, yielded, outcome>>

\* turns and resets of one Agent, resets also while a generator is suspended
InterleavedNext ==
    \/ Next
    \/ ResetSuspended

InterleavedSpec == Init /\ [][InterleavedNext]_vars

\* C20: when a chat_stream generator has run to completion, resets while it was
\* suspended included, the history has the initial system message at index 0.
SystemMessageSurvivesResume ==
    (method = "chat_stream" /\ pc = "idle" /\ outcome.kind = "done") =>
        /\ Len(messages) >= 1
        /\ messages[1] = SystemMessage(DEFAULT_SYSTEM_PROMPT)

====
